---------------------------- MODULE Spec2Model ----------------------------
(***************************************************************************)
(* A model of numng (src/numng.py): the loader-snippet sort                *)
(* (sort_loader_script_snippets) and the build command (main, Loader).     *)
(*                                                                         *)
(* Python values are modelled as follows.  A list is a sequence.  A path   *)
(* string is a record [abs, segs]: whether it starts with the separator    *)
(* and its segments.  None, True, False and the strings of the command     *)
(* line are the strings "None", "True", "False", "'true'", "'false'".      *)
(* A snippet's text is, where the sort runs on its own, the number of the  *)
(* line it was generated from, so that two snippets of one input list      *)
(* differ in text, and in a build the command and the file it names.       *)
(*                                                                         *)
(* SpecSort runs the sort step by step on every list of the bounds.        *)
(* SpecBuild runs `numng build` in /home/user/proj on every command line   *)
(* and root manifest of the bounds, with one git repository whose          *)
(* directories hold the manifests numng_json gives.                        *)
(*                                                                         *)
(* A version string is the sequence of its characters, and SemVer is a     *)
(* record [op, major, minor, patch] whose missing number is NoNumber and   *)
(* whose missing op is OpNone.  SpecSemVer calls SemVer.__eq__ on every    *)
(* pair of version strings of the bounds.  An Optional list or dict is a   *)
(* sequence of at most one element and a dict the set of its items;        *)
(* SpecInclude calls Package.include_data on the packages of the model.    *)
(* A dict that is iterated is the sequence of its items.  SpecNuon calls   *)
(* load_nupm_package_from_registry_nuon and SpecGetByName runs             *)
(* NumngPackageRegistry.get_by_name step by step.  SpecCompare evaluates   *)
(* the match test of latest_matching_dict_entry and SemVer.__gt__ on       *)
(* pairs of version strings, SpecLatest calls latest_matching_dict_entry   *)
(* on dicts in every insertion order, and SpecGit calls get_git_ref_path   *)
(* on every url, ref and store of the model.  A git url is a record        *)
(* [scheme, segs]: the text before "://" and the parts of the text after   *)
(* it.                                                                     *)
(*                                                                         *)
(* SpecFormats runs `numng build` on root manifests that name one package  *)
(* of the formats numng, nupm and packer.nu, declared or not, whose        *)
(* directory holds the files numng_json, nupm_nuon and meta_nuon give, or  *)
(* the package that links another in, on disks with each state of the      *)
(* path of the link.                                                       *)
(*                                                                         *)
(* SpecLoop runs `numng build` on root manifests whose packages name each  *)
(* other or themselves, the process taking its next step as long as it     *)
(* has one.                                                                *)
(***************************************************************************)
EXTENDS Integers, Sequences, FiniteSets, TLC

\* ------------------------------------------------------------------------
\* Bounds of the model
\* ------------------------------------------------------------------------

\* The longest list of snippets handed to the sort.
MaxSnippets == 3

\* The longest depends list of one snippet.
MaxDeps == 2

\* Package names that own snippets and are named in depends lists.
Names == {"A", "B"}

\* The longest depends list of the root manifest.
MaxRootDeps == 2

VARIABLES
    snippets,   \* sort_loader_script_snippets: the argument
    todo,       \* its local todo (the deep copy)
    result,     \* its local result
    last_len,   \* its local last_len
    it,         \* the position of the list iterator of `for snippet in todo`
    sort_pc,    \* where the function is: start, while, for, done, error
    sort_err    \* the names the AssertionError lists

VARIABLES
    args,                   \* main: the parsed command line and what it finds on disk
    root_manifest,          \* the numng.json of the working directory
    pc,                     \* where `numng build` is
    exc,                    \* the exception that ended Loader.__init__
    raised_at,              \* the step that raised it
    logged,                 \* what main logged: nothing, a warning or an error
    exit_code,              \* the exit code of the process, -1 while it runs
    load_q,                 \* Loader._load_q
    loaded,                 \* Loader._loaded
    allow_build_commands,   \* Loader._allow_build_commands
    loader_script_snippets, \* Loader._loader_script_snippets_env, _use and _script
    nupm_home_symlink_todo, \* Loader._nupm_home_symlink_todo
    symlink_i,              \* the position of the loop of line 328
    home_state,             \* the home directory: absent, previous, removed, dirs
    home_links,             \* the symlinks on disk, <<src, dst>>
    script_file,            \* the script file: whether written, and its snippets
    overlay_file,           \* the overlay file: whether written, and its snippets
    store_fs,               \* the directories of the git store
    spawned                 \* the subprocesses run so far

VARIABLES
    call_args,  \* a function called on its own: its arguments
    call_ret,   \* what it returned or raised
    call_pc     \* where the call is: idle, call, while, alias, return, raise

sortVars == <<snippets, todo, result, last_len, it, sort_pc, sort_err>>

buildVars ==
    <<args, root_manifest, pc, exc, raised_at, logged, exit_code, load_q, loaded,
      allow_build_commands, loader_script_snippets, nupm_home_symlink_todo, symlink_i,
      home_state, home_links, script_file, overlay_file, store_fs, spawned>>

callVars == <<call_args, call_ret, call_pc>>

vars == <<sortVars, buildVars, callVars>>

\* ------------------------------------------------------------------------
\* Sequences
\* ------------------------------------------------------------------------

SeqsUpTo(S, n) == UNION {[1..k -> S] : k \in 0..n}

Range(s) == {s[i] : i \in DOMAIN s}

\* list.remove(x) on a list that holds x: the first element equal to x goes.
RemoveAt(s, k) == [i \in 1..(Len(s) - 1) |-> IF i < k THEN s[i] ELSE s[i + 1]]

FirstIndex(s, x) == CHOOSE k \in DOMAIN s : s[k] = x /\ \A j \in 1..(k - 1) : s[j] # x

ListRemove(s, x) == IF x \in Range(s) THEN RemoveAt(s, FirstIndex(s, x)) ELSE s

\* ------------------------------------------------------------------------
\* sort_loader_script_snippets
\* ------------------------------------------------------------------------

LoaderScriptSnippet(n, d, s) == [name |-> n, depends |-> d, snippet |-> s]

\* Lines 219-223: every depends list keeps only the names that own a snippet
\* of the list.
PruneDepends(list) ==
    [i \in DOMAIN list |->
        [list[i] EXCEPT !.depends =
            SelectSeq(@, LAMBDA dep : \E j \in DOMAIN list : list[j].name = dep)]]

\* A variant that strips the name although the package still owns snippets
\* of the list.
StripNameEarly(list, name) ==
    [i \in DOMAIN list |-> [list[i] EXCEPT !.depends = ListRemove(@, name)]]

\* Lines 230-234: once no snippet of the emitted snippet's owner is left, its
\* name is removed (list.remove: the first occurrence) from every depends.
StripName(list, name) ==
    IF \E i \in DOMAIN list : list[i].name = name
    THEN list
    ELSE [i \in DOMAIN list |-> [list[i] EXCEPT !.depends = ListRemove(@, name)]]

\* Line 235, the message's tail: the owners of what is left.
ErrorNamesOfInput(list, input) == [i \in DOMAIN input |-> input[i].name]

ErrorNames(list, input) == [i \in DOMAIN list |-> list[i].name]

\* The function's locals as one value.
SortState(t, r, i, l, p, e) ==
    [todo |-> t, result |-> r, it |-> i, last_len |-> l, pc |-> p, err |-> e]

\* Lines 217-224.
SortEnter(input) ==
    SortState(PruneDepends(input), <<>>, 1, Len(input), "while", <<>>)

\* Line 225.
SortWhileFn(s) ==
    IF Len(s.todo) # 0
    THEN [s EXCEPT !.pc = "for", !.it = 1]
    ELSE [s EXCEPT !.pc = "done"]

\* Lines 226-234, one turn of `for snippet in todo`: the iterator yields
\* todo[it] and moves on by one, whatever the body removes from the list.
SortForFn(s) ==
    LET snippet == s.todo[s.it] IN
    IF Len(snippet.depends) = 0
    THEN [s EXCEPT !.result = Append(@, snippet.snippet),
                   !.todo = StripName(ListRemove(@, snippet), snippet.name),
                   !.it = @ + 1]
    ELSE [s EXCEPT !.it = @ + 1]

\* Lines 235-236, reached when the iterator is past the end of todo.
SortAssertFn(s, input) ==
    IF s.last_len # Len(s.todo)
    THEN [s EXCEPT !.last_len = Len(s.todo), !.pc = "while"]
    ELSE [s EXCEPT !.pc = "error", !.err = ErrorNames(s.todo, input)]

SortCur == SortState(todo, result, it, last_len, sort_pc, sort_err)

SortSet(s) ==
    /\ todo' = s.todo
    /\ result' = s.result
    /\ it' = s.it
    /\ last_len' = s.last_len
    /\ sort_pc' = s.pc
    /\ sort_err' = s.err

\* The inputs: every list of at most MaxSnippets snippets; the i-th
\* snippet's text is i.  The function only compares names for equality, so
\* the first snippet's owner is taken to be "A".
SortInputs ==
    {[i \in DOMAIN l |-> LoaderScriptSnippet(l[i].name, l[i].depends, i)] :
        l \in {m \in SeqsUpTo([name : Names, depends : SeqsUpTo(Names, MaxDeps)], MaxSnippets) :
                  m # <<>> => m[1].name = "A"}}

SortCall ==
    /\ sort_pc = "start"
    /\ SortSet(SortEnter(snippets))
    /\ UNCHANGED <<snippets, buildVars, callVars>>

SortWhile ==
    /\ sort_pc = "while"
    /\ SortSet(SortWhileFn(SortCur))
    /\ UNCHANGED <<snippets, buildVars, callVars>>

SortFor ==
    /\ sort_pc = "for"
    /\ it <= Len(todo)
    /\ SortSet(SortForFn(SortCur))
    /\ UNCHANGED <<snippets, buildVars, callVars>>

SortAssert ==
    /\ sort_pc = "for"
    /\ it > Len(todo)
    /\ SortSet(SortAssertFn(SortCur, snippets))
    /\ UNCHANGED <<snippets, buildVars, callVars>>

SortNext == SortCall \/ SortWhile \/ SortFor \/ SortAssert

\* The whole function as the build calls it: the state it ends in.
RECURSIVE SortRun(_, _)
SortRun(s, input) ==
    IF s.pc \in {"done", "error"} THEN s
    ELSE IF s.pc = "while" THEN SortRun(SortWhileFn(s), input)
    ELSE IF s.it <= Len(s.todo) THEN SortRun(SortForFn(s), input)
    ELSE SortRun(SortAssertFn(s, input), input)

sort_loader_script_snippets(input) == SortRun(SortEnter(input), input)

\* ------------------------------------------------------------------------
\* Paths (os.path on POSIX)
\* ------------------------------------------------------------------------

\* A path string: abs says whether it starts with the separator, segs are
\* its parts between separators.  The empty relative path stands for None
\* and for "", which the code does not tell apart (`if offset`, `ref or`).
Path(a, s) == [abs |-> a, segs |-> s]

Rel(s) == Path(FALSE, s)

NoPath == Rel(<<>>)

\* os.path.join(a, b)
PathJoin(a, b) == IF b.abs THEN b ELSE Path(a.abs, a.segs \o b.segs)

\* os.path.normpath: "." goes, ".." takes the part before it, and above the
\* root ".." goes too.
RECURSIVE NormSegs(_, _, _)
NormSegs(abs, seen, rest) ==
    IF rest = <<>> THEN seen
    ELSE IF Head(rest) \in {".", ""} THEN NormSegs(abs, seen, Tail(rest))
    ELSE IF Head(rest) # ".." THEN NormSegs(abs, Append(seen, Head(rest)), Tail(rest))
    ELSE IF seen # <<>> /\ seen[Len(seen)] # ".."
         THEN NormSegs(abs, SubSeq(seen, 1, Len(seen) - 1), Tail(rest))
    ELSE IF abs THEN NormSegs(abs, seen, Tail(rest))
    ELSE NormSegs(abs, Append(seen, ".."), Tail(rest))

NormPath(p) == Path(p.abs, NormSegs(p.abs, <<>>, p.segs))

\* The working directory of the process, which holds numng.json.
Cwd == Path(TRUE, <<"home", "user", "proj">>)

\* os.path.abspath
AbsPath(p) == NormPath(PathJoin(Cwd, p))

\* Pairs <<a, b>> of path parts of the model where a is a proper prefix of b
\* as a string.
ProperPrefixParts == {<<"y", "y2">>}

\* str.startswith on two path strings: p starts with q.
StartsWith(p, q) ==
    /\ p.abs = q.abs
    /\ Len(q.segs) <= Len(p.segs)
    /\ \A i \in 1..(Len(q.segs) - 1) : p.segs[i] = q.segs[i]
    /\ q.segs # <<>> =>
          \/ p.segs[Len(q.segs)] = q.segs[Len(q.segs)]
          \/ <<q.segs[Len(q.segs)], p.segs[Len(q.segs)]>> \in ProperPrefixParts

\* len(path.normpath(p).strip(path.sep).split(path.sep)), line 265: the
\* split of "" and of "." has one part.
SplitLen(p) == IF NormPath(p).segs = <<>> THEN 1 ELSE Len(NormPath(p).segs)

\* Lines 710-711, on the names of the model: "/" and ":" are no valid
\* characters.
filesystem_safe(text) ==
    IF text = "m/1" THEN "m_1" ELSE IF text = "r:1" THEN "r_1" ELSE text

\* d is the directory p or lies below it (both normalized and absolute).
InsideDir(d, p) ==
    /\ Len(p.segs) <= Len(d.segs)
    /\ SubSeq(d.segs, 1, Len(p.segs)) = p.segs

\* ------------------------------------------------------------------------
\* The git store (get_git_ref_path)
\* ------------------------------------------------------------------------

\* Line 28.
BASEDIRECTORY == Path(TRUE, <<"home", "user", ".local", "share", "nushell", "numng">>)

\* The repository of the builds of the model, "https://h/r".  scheme is the
\* text before "://", "" where the url has no "://", and segs are the parts
\* of the text after it.
Url1 == [scheme |-> "https", segs |-> <<"h", "r">>]

MainRef == Rel(<<"main">>)

\* all(i in "0123456789abcdef" for i in ref), line 681.
IsHexRef(ref) == ref \in {Rel(<<"abc">>)}

\* Lines 647-651.
GitBasePath(url) ==
    PathJoin(PathJoin(BASEDIRECTORY, Rel(<<"store", "git">>)),
             Rel([i \in DOMAIN url.segs |-> filesystem_safe(url.segs[i])]))

\* Line 652.
GitBarePath(url) == PathJoin(GitBasePath(url), Rel(<<"__bare__">>))

\* The ref "feature/x".
FeatureRef == Rel(<<"feature", "x">>)

\* Line 653: the ref is made one safe name, "feature/x" being made
\* "feature_x".
GitRefDir(url, ref) ==
    PathJoin(GitBasePath(url),
             Rel(<<IF Len(ref.segs) = 1 THEN filesystem_safe(ref.segs[1])
                   ELSE IF ref = FeatureRef THEN "feature_x"
                   ELSE "_">>))

\* path.exists on the store: fs holds the directories made so far.
Exists(fs, p) == \E a \in {AbsPath(p)} : \E q \in fs : InsideDir(q, a)

NoExc == [type |-> "", msg |-> ""]

AssertionError(m) == [type |-> "AssertionError", msg |-> m]

Cmd(c, ok) == [cmd |-> c, rc |-> IF ok THEN 0 ELSE 1]

\* What get_git_ref_path has done so far: the exception it raised, the
\* store and the subprocesses it ran.
GitResult(e, fs, cmds) == [exc |-> e, fs |-> fs, cmds |-> cmds]

\* Lines 659-668.  o gives each subprocess's result.
git_clone(url, fs, o) ==
    IF Exists(fs, GitBarePath(url)) THEN GitResult(NoExc, fs, <<>>)
    ELSE IF o.clone
         THEN GitResult(NoExc, fs \cup {GitBasePath(url), GitBarePath(url)},
                        <<Cmd("git clone", TRUE)>>)
    ELSE GitResult(AssertionError("Failed to git clone"), fs \cup {GitBasePath(url)},
                   <<Cmd("git clone", FALSE)>>)

\* Lines 672-685: the fetch, its repair for a short hash, the worktree.
GitFetchCmds(ref, o) ==
    <<Cmd("git fetch", o.fetch)>>
        \o (IF ~o.fetch /\ IsHexRef(ref) THEN <<Cmd("git fetch --unshallow", TRUE)>> ELSE <<>>)
        \o <<Cmd("git worktree add", o.worktree)>>

\* Lines 670-697: the worktree is missing.
git_worktree_add(url, ref, r, o) ==
    IF o.worktree
    THEN GitResult(NoExc, r.fs \cup {GitRefDir(url, ref)}, r.cmds \o GitFetchCmds(ref, o))
    ELSE IF ~o.refetch
         THEN GitResult(AssertionError("Failed to fetch git_ref"), r.fs,
                        r.cmds \o GitFetchCmds(ref, o) \o <<Cmd("git fetch ref:ref", FALSE)>>)
    ELSE GitResult(IF o.worktree2 THEN NoExc
                   ELSE AssertionError("Failed to add a git worktree"),
                   IF o.worktree2 THEN r.fs \cup {GitRefDir(url, ref)} ELSE r.fs,
                   r.cmds \o GitFetchCmds(ref, o)
                          \o <<Cmd("git fetch ref:ref", TRUE), Cmd("git worktree add", o.worktree2)>>)

\* Lines 698-705: the worktree is there and updates are asked for.
git_update(r, o) ==
    IF ~o.fetch
    THEN GitResult(AssertionError("Failed to fetch update"), r.fs,
                   r.cmds \o <<Cmd("git clean", o.clean), Cmd("git fetch", FALSE)>>)
    ELSE GitResult(IF o.reset THEN NoExc ELSE AssertionError("Failed to reset to update"),
                   r.fs,
                   r.cmds \o <<Cmd("git clean", o.clean), Cmd("git fetch", TRUE),
                               Cmd("git reset", o.reset)>>)

\* Lines 670-705 with line 698 reading `else:`: a worktree that is there is
\* updated by every build (C13 does not hold of this variant).
git_ref_always_update(url, ref, update, r, o) ==
    IF r.exc # NoExc THEN r
    ELSE IF ~Exists(r.fs, GitRefDir(url, ref)) THEN git_worktree_add(url, ref, r, o)
    ELSE git_update(r, [o EXCEPT !.clean = TRUE, !.fetch = TRUE, !.reset = TRUE])

\* Lines 670-705 after the clone r.
git_ref(url, ref, update, r, o) ==
    IF r.exc # NoExc THEN r
    ELSE IF ~Exists(r.fs, GitRefDir(url, ref)) THEN git_worktree_add(url, ref, r, o)
    ELSE IF update THEN git_update(r, o)
    ELSE r

\* Line 645.
RefOrMain(ref) == IF ref = NoPath THEN MainRef ELSE ref

\* Line 707: the path returned joins the ref as it was written.
GitReturn(r, url, ref) ==
    [exc |-> r.exc, fs |-> r.fs, cmds |-> r.cmds, path |-> PathJoin(GitBasePath(url), ref)]

\* Lines 644-707 with download=True: what the call raises, the store after
\* it, the subprocesses it ran and the path it returns.
get_git_ref_path(url, ref, update, fs, o) ==
    IF url.scheme = ""
    THEN [exc |-> AssertionError("Invalid git url"), fs |-> fs, cmds |-> <<>>, path |-> NoPath]
    ELSE CHOOSE ret \in
             {GitReturn(r, url, RefOrMain(ref)) :
                  r \in {git_ref(url, RefOrMain(ref), update, c, o) :
                             c \in {git_clone(url, fs, o)}}} : TRUE

\* The subprocesses of one handler all succeed.
AllSucceed ==
    [clone |-> TRUE, fetch |-> TRUE, worktree |-> TRUE, refetch |-> TRUE,
     worktree2 |-> TRUE, clean |-> TRUE, reset |-> TRUE, build |-> TRUE]

\* What the subprocesses of one handler return: at most one kind of
\* command fails, or the first `git worktree add` and one of its repairs.
Outcomes ==
    {AllSucceed}
        \cup {[AllSucceed EXCEPT ![f] = FALSE] : f \in DOMAIN AllSucceed}
        \cup {[AllSucceed EXCEPT !.worktree = FALSE, ![f] = FALSE] : f \in {"refetch", "worktree2"}}

\* ------------------------------------------------------------------------
\* Packages and the files of the model
\* ------------------------------------------------------------------------

NoUrl == [scheme |-> "", segs |-> <<>>]

\* Lines 105-115; source_type and registries are None, and package_format
\* is None unless it is set.
Package(n, uri, ref, offset, deps) ==
    [name |-> n, source_uri |-> uri, source_git_ref |-> ref,
     source_path_offset |-> offset, depends |-> deps, package_format |-> "None"]

PkgA == Package("A", Url1, NoPath, NoPath, <<>>)

\* A names itself as a dependency.
PkgASelf == Package("A", Url1, NoPath, NoPath, <<PkgA>>)

\* The path offsets of B: three directories of the repository, one of them
\* written in a second way, the directory above the worktree and an
\* absolute path.
Offsets ==
    {Rel(<<"lib">>), Rel(<<"x">>), Rel(<<".", "x">>), Rel(<<"y">>), Rel(<<"..">>),
     Path(TRUE, <<"etc">>)}

PkgB(offset) == Package("B", Url1, NoPath, offset, <<>>)

\* The dependencies a root manifest can name.
Packages == {PkgA, PkgASelf} \cup {PkgB(offset) : offset \in Offsets}

\* Packages whose manifests name each other (ca and cb) and itself (cs).
PkgCa == Package("Ca", Url1, NoPath, Rel(<<"ca">>), <<>>)

PkgCb == Package("Cb", Url1, NoPath, Rel(<<"cb">>), <<>>)

PkgCs == Package("Cs", Url1, NoPath, Rel(<<"cs">>), <<>>)

\* The worktree of the repository at its default ref.
Worktree == PathJoin(GitBasePath(Url1), MainRef)

NoManifest ==
    [present |-> FALSE, depends |-> <<>>, build_command |-> FALSE, linkin |-> <<>>,
     nu_libs |-> <<>>, source |-> <<>>, use |-> <<>>, use_all |-> <<>>,
     source_env |-> <<>>]

\* A directory at the top of the worktree.
Dir(name) == PathJoin(Worktree, Rel(<<name>>))

NuLib(n, p) == [name |-> n, rel_path |-> p]

\* One entry of "linkin": the path of the link and the package linked in.
Linkin(p, package) == [linkin_path |-> p, linkin_json |-> package]

\* json.load of numng.json in the directory loc (absolute, normalized), None
\* where there is no such file: the root manifest in the working directory,
\* and in the worktree of the repository, once it is there, its top directory (a module and a sourced file),
\* lib (a module of the same name, a used file and an env file), x (a
\* build command) and y (a dependency on A, A linked in at y/dep, a module
\* at ../y2/n and a sourced file), all (a sourced file), u (a sourced file
\* and a used file above the directory), u2 (a used file), s (the modules
\* "m/1" and "m_1"), d (the modules "." and ""), ca (a dependency on cb and
\* a module), cb (a dependency on ca) and cs (a dependency on cs).
numng_json(loc, root, fs) ==
    IF loc = Cwd THEN [NoManifest EXCEPT !.present = TRUE, !.depends = root.depends]
    ELSE IF ~Exists(fs, Worktree) THEN NoManifest
    ELSE IF loc = Worktree
         THEN [NoManifest EXCEPT !.present = TRUE,
                                 !.nu_libs = <<NuLib("m", Rel(<<"mod">>))>>,
                                 !.source = <<Rel(<<"init.nu">>)>>]
    ELSE IF loc = PathJoin(Worktree, Rel(<<"lib">>))
         THEN [NoManifest EXCEPT !.present = TRUE,
                                 !.nu_libs = <<NuLib("m", Rel(<<"m">>))>>,
                                 !.use_all = <<Rel(<<"mod.nu">>)>>,
                                 !.source_env = <<Rel(<<"env.nu">>)>>]
    ELSE IF loc = PathJoin(Worktree, Rel(<<"x">>))
         THEN [NoManifest EXCEPT !.present = TRUE, !.build_command = TRUE]
    ELSE IF loc = PathJoin(Worktree, Rel(<<"y">>))
         THEN [NoManifest EXCEPT !.present = TRUE,
                                 !.depends = <<PkgA>>,
                                 !.linkin = <<Linkin(Rel(<<"dep">>), PkgA)>>,
                                 !.nu_libs = <<NuLib("n", Rel(<<"..", "y2", "n">>))>>,
                                 !.source = <<Rel(<<"y.nu">>)>>]
    ELSE IF loc = Dir("all")
         THEN [NoManifest EXCEPT !.present = TRUE, !.source = <<Rel(<<"s.nu">>)>>]
    ELSE IF loc = Dir("u")
         THEN [NoManifest EXCEPT !.present = TRUE,
                                 !.source = <<Rel(<<"s.nu">>)>>,
                                 !.use = <<Rel(<<"..", "out.nu">>)>>]
    ELSE IF loc = Dir("u2")
         THEN [NoManifest EXCEPT !.present = TRUE, !.use = <<Rel(<<"u.nu">>)>>]
    ELSE IF loc = Dir("s")
         THEN [NoManifest EXCEPT !.present = TRUE,
                                 !.nu_libs = <<NuLib("m/1", Rel(<<"a">>)),
                                               NuLib("m_1", Rel(<<"b">>))>>]
    ELSE IF loc = Dir("d")
         THEN [NoManifest EXCEPT !.present = TRUE,
                                 !.nu_libs = <<NuLib(".", Rel(<<"a">>)),
                                               NuLib("", Rel(<<"b">>))>>]
    ELSE IF loc = Dir("ca")
         THEN [NoManifest EXCEPT !.present = TRUE,
                                 !.depends = <<PkgCb>>,
                                 !.nu_libs = <<NuLib("ca", Rel(<<"mod">>))>>]
    ELSE IF loc = Dir("cb")
         THEN [NoManifest EXCEPT !.present = TRUE, !.depends = <<PkgCa>>]
    ELSE IF loc = Dir("cs")
         THEN [NoManifest EXCEPT !.present = TRUE, !.depends = <<PkgCs>>]
    ELSE NoManifest

NoNupm ==
    [present |-> FALSE, type |-> "", name |-> "", module_dir |-> FALSE, build_nu |-> FALSE,
     dependencies |-> [form |-> "absent", entries |-> <<>>]]

\* load_nuon of nupm.nuon in the directory loc, None where there is no such
\* file: all and pkn (a custom package with its build.nu), nl (a module
\* with the list of dependencies ["nushell"]), nd (a module with the record
\* of dependencies {nushell: "0.90"}) and nq (a module with the list
\* ["nushell", "dep/1.0.0"]).  An entry of a list is written as the pair
\* line 568 makes of it.
nupm_nuon(loc, fs) ==
    IF ~Exists(fs, Worktree) THEN NoNupm
    ELSE IF loc \in {Dir("all"), Dir("pkn")}
         THEN [NoNupm EXCEPT !.present = TRUE, !.type = "custom", !.build_nu = TRUE]
    ELSE IF loc = Dir("nl")
         THEN [NoNupm EXCEPT !.present = TRUE, !.type = "module", !.name = "nl",
                             !.module_dir = TRUE,
                             !.dependencies = [form |-> "list",
                                               entries |-> << <<"nushell", "None">> >>]]
    ELSE IF loc = Dir("nd")
         THEN [NoNupm EXCEPT !.present = TRUE, !.type = "module", !.name = "nd",
                             !.module_dir = TRUE,
                             !.dependencies = [form |-> "dict",
                                               entries |-> << <<"nushell", "0.90">> >>]]
    ELSE IF loc = Dir("nq")
         THEN [NoNupm EXCEPT !.present = TRUE, !.type = "module", !.name = "nq",
                             !.module_dir = TRUE,
                             !.dependencies = [form |-> "list",
                                               entries |-> << <<"nushell", "None">>,
                                                              <<"dep", "1.0.0">> >>]]
    ELSE NoNupm

NoMeta ==
    [present |-> FALSE, prefixed_modules |-> <<>>, modules |-> <<>>, env_nu |-> FALSE,
     init_nu |-> FALSE, lib_dir |-> FALSE]

\* load_nuon of meta.nuon in the directory loc, None where there is no such
\* file, and whether env.nu, init.nu and lib are there: all and pkn (a
\* module), pk (a prefixed module, a module and the three) and pk2 (a
\* prefixed module and a module above the directory).
meta_nuon(loc, fs) ==
    IF ~Exists(fs, Worktree) THEN NoMeta
    ELSE IF loc \in {Dir("all"), Dir("pkn")}
         THEN [NoMeta EXCEPT !.present = TRUE, !.modules = <<Rel(<<"m">>)>>]
    ELSE IF loc = Dir("pk")
         THEN [NoMeta EXCEPT !.present = TRUE,
                             !.prefixed_modules = <<Rel(<<"p">>)>>,
                             !.modules = <<Rel(<<"m">>)>>,
                             !.env_nu = TRUE, !.init_nu = TRUE, !.lib_dir = TRUE]
    ELSE IF loc = Dir("pk2")
         THEN [NoMeta EXCEPT !.present = TRUE,
                             !.prefixed_modules = <<Rel(<<"..", "out">>)>>,
                             !.modules = <<Rel(<<"..", "out">>)>>]
    ELSE NoMeta

\* Python's truth value of None, a bool and a non-empty string.
Truthy(v) == v \in {"True", "'true'", "'false'"}

\* `--nupm-home`: not given, three levels below the root, two levels below
\* the root, and a relative path that leads to the root.
HomeArgs ==
    {[given |-> FALSE, path |-> NoPath],
     [given |-> TRUE, path |-> Path(TRUE, <<"home", "user", "nupm">>)],
     [given |-> TRUE, path |-> Path(TRUE, <<"home", "user">>)],
     [given |-> TRUE, path |-> Rel(<<"..", "..", "..">>)]}

\* ------------------------------------------------------------------------
\* Loader: the handlers of one package
\* ------------------------------------------------------------------------

\* The fields of the Loader and of the disk that the handler of one package
\* changes, the exception it raises, the path its last download returned
\* and the list line 375 builds.
Handler ==
    [exc |-> NoExc, load_q |-> load_q, store_fs |-> store_fs, spawned |-> spawned,
     symlink_todo |-> nupm_home_symlink_todo, snippets |-> loader_script_snippets,
     links |-> home_links, path |-> NoPath, pairs |-> <<>>]

Raise(h, e) == [h EXCEPT !.exc = e]

\* Lines 389-390 after get_git_ref_path has returned r.
Downloaded(h, package, r) ==
    [h EXCEPT !.exc = r.exc, !.store_fs = r.fs, !.spawned = @ \o r.cmds,
              !.path = IF package.source_path_offset # NoPath
                       THEN PathJoin(r.path, package.source_path_offset)
                       ELSE r.path]

\* Lines 377-393, with no registry loaded.
download_package(h, package, o) ==
    IF package.source_uri = NoUrl
    THEN Raise(h, AssertionError("Failed to download (unknown source_uri)"))
    ELSE CHOOSE d \in
             {Downloaded(h, package, r) :
                  r \in {get_git_ref_path(package.source_uri, package.source_git_ref,
                                          args.pull_updates, h.store_fs, o)}} : TRUE

\* Line 375, one element of the list.
Pair(h, package) == [h EXCEPT !.pairs = Append(@, <<package, h.path>>)]

\* Lines 374-375: every package is downloaded before one is returned.
RECURSIVE download_packages(_, _, _)
download_packages(h, packages, o) ==
    IF packages = <<>> \/ h.exc # NoExc THEN h
    ELSE CHOOSE r \in
             {download_packages(Pair(d, Head(packages)), Tail(packages), o) :
                  d \in {download_package(h, Head(packages), o)}} : TRUE

\* Lines 396-397.
PutPairs(h) == IF h.exc # NoExc THEN h ELSE [h EXCEPT !.load_q = @ \o h.pairs]

\* Line 462, the put.
Put(h, package) ==
    IF h.exc # NoExc THEN h ELSE [h EXCEPT !.load_q = Append(@, <<package, h.path>>)]

\* Lines 459-462: each dependency of numng.json is downloaded and queued.
RECURSIVE put_depends(_, _, _)
put_depends(h, packages, o) ==
    IF packages = <<>> \/ h.exc # NoExc THEN h
    ELSE CHOOSE r \in
             {put_depends(Put(d, Head(packages)), Tail(packages), o) :
                  d \in {download_package(h, Head(packages), o)}} : TRUE

\* Lines 466-470.
build_command(h, numng, o) ==
    IF h.exc # NoExc \/ ~numng.build_command THEN h
    ELSE IF ~Truthy(allow_build_commands)
         THEN Raise(h, AssertionError("package contains a build_command"))
    ELSE [h EXCEPT !.spawned = Append(@, Cmd("nu build_command", o.build)),
                   !.exc = IF o.build THEN NoExc ELSE AssertionError("build_command failed")]

\* Lines 487-492 after the download of the package linked in, whose path
\* is h.path.  path.exists follows a link: a link that is there and leads
\* to a directory elsewhere is removed, one that leads to the package is
\* kept and nothing is planned, and one that leads nowhere is not seen.
linkin_append(h, linkin_path) ==
    IF h.exc # NoExc THEN h
    ELSE IF Exists(h.store_fs, linkin_path)
         THEN Raise(h, AssertionError("Failed linkin: path exists and is not a symlink"))
    ELSE IF \E l \in h.links : /\ l[2] = linkin_path
                               /\ Exists(h.store_fs, l[1])
                               /\ AbsPath(l[1]) = h.path
         THEN h
    ELSE [h EXCEPT !.links = {l \in @ : l[2] # linkin_path \/ ~Exists(h.store_fs, l[1])},
                   !.symlink_todo = Append(@, <<h.path, linkin_path>>)]

\* Lines 474-492 for a link path without ":", with linkin_path computed; the
\* directory of the link is the package's own, which is there.
linkin_one(h, linkin_path, linkin, base_path, o) ==
    IF ~StartsWith(linkin_path, base_path)
    THEN Raise(h, AssertionError("Package tried to linkin outside of its own directory"))
    ELSE CHOOSE r \in
             {linkin_append(d, linkin_path) : d \in {download_package(h, linkin, o)}} : TRUE

\* Lines 471-492.
RECURSIVE linkin(_, _, _, _)
linkin(h, entries, base_path, o) ==
    IF entries = <<>> \/ h.exc # NoExc THEN h
    ELSE CHOOSE r \in
             {linkin(l, Tail(entries), base_path, o) :
                  l \in {linkin_one(h, AbsPath(PathJoin(base_path, Head(entries).linkin_path)),
                                    Head(entries).linkin_json, base_path, o)}} : TRUE

\* Line 355.
ModuleDst(module_name) ==
    AbsPath(PathJoin(PathJoin(args.nupm_home.path, Rel(<<"modules">>)),
                     Rel(<<filesystem_safe(module_name)>>)))

\* Lines 352-357.
register_nupm_module(h, module_name, module_source_path) ==
    IF ~args.nupm_home.given THEN h
    ELSE IF ~StartsWith(ModuleDst(module_name),
                        PathJoin(args.nupm_home.path, Rel(<<"modules">>)))
         THEN Raise(h, AssertionError(""))
    ELSE [h EXCEPT !.symlink_todo = Append(@, <<module_source_path, ModuleDst(module_name)>>)]

\* Lines 500-503 with abs_path computed.
register_nu_lib(h, name, abs_path, base_path) ==
    IF ~StartsWith(abs_path, base_path)
    THEN Raise(h, AssertionError("Security error: lib outside of its directory"))
    ELSE register_nupm_module(h, name, abs_path)

\* Lines 497-503.
RECURSIVE nu_libs(_, _, _)
nu_libs(h, libs, base_path) ==
    IF libs = <<>> \/ h.exc # NoExc THEN h
    ELSE nu_libs(register_nu_lib(h, Head(libs).name,
                                 AbsPath(PathJoin(base_path, Head(libs).rel_path)),
                                 base_path),
                 Tail(libs), base_path)

\* Line 506.
DepNames(package) == [i \in DOMAIN package.depends |-> package.depends[i].name]

\* Lines 509-510, 517-518 and 521-522 with the path of the file computed.
ShellFile(h, file, list, cmd, package, base_path) ==
    IF ~StartsWith(file, base_path)
    THEN Raise(h, AssertionError("Security error: shell_config outside of its directory"))
    ELSE [h EXCEPT !.snippets[list] =
             Append(@, LoaderScriptSnippet(package.name, DepNames(package),
                                           [cmd |-> cmd, file |-> file]))]

\* Lines 506-522, one of the lists of shell_config: source and use_all and
\* source_env, whose snippets go to the script, use and env list.
RECURSIVE shell_config(_, _, _, _, _, _)
shell_config(h, files, list, cmd, package, base_path) ==
    IF files = <<>> \/ h.exc # NoExc THEN h
    ELSE shell_config(ShellFile(h, AbsPath(PathJoin(base_path, Head(files))), list, cmd,
                                package, base_path),
                      Tail(files), list, cmd, package, base_path)

\* src_file when the loop of lines 507-510 has ended without an exception:
\* unbound (NoPath) after no turn, and else the path line 509 has made of
\* the last file.
LastSrcFile(source, base_path) ==
    IF source = <<>> THEN NoPath
    ELSE AbsPath(PathJoin(base_path, source[Len(source)]))

\* Lines 512-514, one turn: line 513 joins and checks src_file, line 514
\* writes use_file as the manifest has it.
UseFile(h, use_file, src_file, package, base_path) ==
    IF src_file = NoPath
    THEN Raise(h, [type |-> "UnboundLocalError",
                   msg |-> "cannot access local variable 'src_file'"])
    ELSE IF ~StartsWith(AbsPath(PathJoin(base_path, src_file)), base_path)
    THEN Raise(h, AssertionError("Security error: shell_config outside of its directory"))
    ELSE [h EXCEPT !.snippets["use"] =
             Append(@, LoaderScriptSnippet(package.name, DepNames(package),
                                           [cmd |-> "export use", file |-> use_file]))]

\* Lines 511-514, the list "use" of shell_config.
RECURSIVE shell_use(_, _, _, _, _)
shell_use(h, files, src_file, package, base_path) ==
    IF files = <<>> \/ h.exc # NoExc THEN h
    ELSE shell_use(UseFile(h, Head(files), src_file, package, base_path), Tail(files),
                   IF src_file = NoPath THEN NoPath
                   ELSE AbsPath(PathJoin(base_path, src_file)),
                   package, base_path)

\* Lines 459-529 for the keys the manifests of the model have; numng is the
\* numng.json read in lines 456-457.
load_numng(h, numng, package, base_path, o) ==
    CHOOSE r \in
        {shell_config(h8, numng.source_env, "env", "source-env", package, base_path) :
         h8 \in {shell_config(h7, numng.use_all, "use", "export use *", package, base_path) :
         h7 \in {shell_use(h6, numng.use, LastSrcFile(numng.source, base_path), package,
                           base_path) :
         h6 \in {shell_config(h5, numng.source, "script", "source", package, base_path) :
         h5 \in {nu_libs(h4, numng.nu_libs, base_path) :
         h4 \in {linkin(h3, numng.linkin, base_path, o) :
         h3 \in {build_command(h2, numng, o) :
         h2 \in {put_depends(h, numng.depends, o)}}}}}}}} : TRUE

\* An Optional list or dict: None is the empty sequence, and a value v is
\* the sequence <<v>>.  A dict is the set of its <<key, value>> pairs.
None == <<>>

Some(v) == <<v>>

\* load_nuon, lines 723-732: nu converts the text, which it does for the
\* files of the model.
load_nuon(h) == [h EXCEPT !.spawned = Append(@, Cmd("nu from nuon", TRUE))]

\* Lines 335-339 with no registry loaded: the loop has no turn.
registry_get_by_name(name, version) == None

\* Lines 574-579, one entry of the dependencies.
nupm_dependency(h, entry, o) ==
    IF entry[1] = "nushell" THEN h
    ELSE IF registry_get_by_name(entry[1], entry[2]) = None
         THEN Raise(h, AssertionError("Failed to load (unknown dependency)"))
    ELSE Put(download_package(h, registry_get_by_name(entry[1], entry[2])[1], o),
             registry_get_by_name(entry[1], entry[2])[1])

\* Lines 573-579.
RECURSIVE nupm_deps(_, _, _)
nupm_deps(h, entries, o) ==
    IF entries = <<>> \/ h.exc # NoExc THEN h
    ELSE nupm_deps(nupm_dependency(h, Head(entries), o), Tail(entries), o)

\* Lines 563-579: line 564 lets a list pass and nothing else.
nupm_dependencies(h, dependencies, o) ==
    IF h.exc # NoExc \/ dependencies.form = "absent" THEN h
    ELSE IF dependencies.form # "list"
         THEN Raise(h, AssertionError("Invalid nupm.nuon (dependencies not a list)"))
    ELSE nupm_deps(h, dependencies.entries, o)

\* Lines 539-556 for the types module and custom.
nupm_type(h, nupm, base_path, o) ==
    IF nupm.type = "module"
    THEN IF ~nupm.module_dir
         THEN Raise(h, AssertionError("module-nupm-package does not contain a module dir"))
         ELSE register_nupm_module(h, nupm.name, PathJoin(base_path, Rel(<<nupm.name>>)))
    ELSE IF nupm.type = "custom"
    THEN IF allow_build_commands # "True"
         THEN Raise(h, AssertionError("Cannot load nupm custom-type package"))
         ELSE IF ~nupm.build_nu
         THEN Raise(h, AssertionError("Invalid nupm custom-type package (missing build.nu)"))
         ELSE [h EXCEPT !.spawned = Append(@, Cmd("nu build.nu", o.build)),
                        !.exc = IF o.build THEN NoExc
                                ELSE AssertionError("nupm-custom build failed")]
    ELSE Raise(h, AssertionError("Failed to load nupm-package (unknown package type)"))

\* Lines 532-579 for the keys the files of the model have.
load_nupm(h, nupm, base_path, o) ==
    nupm_dependencies(nupm_type(load_nuon(h), nupm, base_path, o), nupm.dependencies, o)

\* Lines 421-426 and 429-434, one module: the path is joined and not
\* normalized, and its snippet goes to the use list.
PackerModule(h, module, cmd, package, base_path) ==
    IF ~StartsWith(PathJoin(base_path, module), base_path)
    THEN Raise(h, AssertionError("Security error: module paths invalid"))
    ELSE [h EXCEPT !.snippets["use"] =
             Append(@, LoaderScriptSnippet(package.name, DepNames(package),
                                           [cmd |-> cmd, file |-> PathJoin(base_path, module)]))]

\* Lines 419-426 and 427-434.
RECURSIVE packer_modules(_, _, _, _, _)
packer_modules(h, modules, cmd, package, base_path) ==
    IF modules = <<>> \/ h.exc # NoExc THEN h
    ELSE packer_modules(PackerModule(h, Head(modules), cmd, package, base_path),
                        Tail(modules), cmd, package, base_path)

\* Lines 435-452, one of env.nu, init.nu and lib.
PackerEnv(h, there, cmd, name, package, base_path) ==
    IF h.exc # NoExc \/ ~there THEN h
    ELSE [h EXCEPT !.snippets["env"] =
             Append(@, LoaderScriptSnippet(package.name, DepNames(package),
                                           [cmd |-> cmd,
                                            file |-> PathJoin(base_path, Rel(<<name>>))]))]

\* Lines 413-452.
load_packer_meta(h, meta, package, base_path) ==
    PackerEnv(
        PackerEnv(
            PackerEnv(
                packer_modules(
                    packer_modules(load_nuon(h), meta.prefixed_modules, "export use",
                                   package, base_path),
                    meta.modules, "export use *", package, base_path),
                meta.env_nu, "source-env", "env.nu", package, base_path),
            meta.init_nu, "use *", "init.nu", package, base_path),
        meta.lib_dir, "NU_LIB_DIRS append", "lib", package, base_path)

\* Lines 398-411, numng being the numng.json of the package's directory,
\* NoManifest where there is none: a package declared numng is then read
\* from its extra_data, which the packages of the model do not have.
Dispatch(h, numng, package, base_path, o) ==
    IF h.exc # NoExc THEN h
    ELSE IF \/ package.package_format = "numng"
            \/ package.package_format = "None" /\ numng.present
         THEN load_numng(h, numng, package, base_path, o)
    ELSE IF /\ package.package_format \in {"nupm", "None"}
            /\ nupm_nuon(AbsPath(base_path), h.store_fs).present
         THEN load_nupm(h, nupm_nuon(AbsPath(base_path), h.store_fs), base_path, o)
    ELSE IF /\ package.package_format \in {"packer", "packer.nu"}
            /\ meta_nuon(AbsPath(base_path), h.store_fs).present
         THEN load_packer_meta(h, meta_nuon(AbsPath(base_path), h.store_fs), package,
                               base_path)
    ELSE h

\* Lines 395-397 and the files lines 398-411 find after them.
Fetched(h, package, base_path, o) ==
    CHOOSE r \in
        {Dispatch(h, numng, package, base_path, o) :
             numng \in {numng_json(AbsPath(base_path), root_manifest, h.store_fs)}} : TRUE

\* Lines 395-411.
load_package(h, package, base_path, o) ==
    CHOOSE r \in
        {Fetched(q, package, base_path, o) :
             q \in {PutPairs(d) : d \in {download_packages(h, package.depends, o)}}} : TRUE

\* ------------------------------------------------------------------------
\* numng build: main and Loader.__init__
\* ------------------------------------------------------------------------

\* The command lines of `numng build` and the disk they meet.  The home
\* directory may be missing only where it is not a directory above the
\* working directory; updates are pulled by a build that writes no script
\* and has no home directory; without a package file no other option is read.
\* fetched says that an earlier build has left the worktree of the
\* repository in the store.
BuildArgs ==
    {a \in [package_file : {TRUE}, nupm_home : HomeArgs, home_exists : BOOLEAN,
            script_file : BOOLEAN, overlay_file : BOOLEAN, pull_updates : BOOLEAN,
            allow_build_commands : {"None", "'true'", "'false'"}, fetched : BOOLEAN] :
        /\ a.home_exists =>  a.nupm_home.given
        /\ ~a.home_exists => a.nupm_home.path \in {NoPath, Path(TRUE, <<"home", "user", "nupm">>)}
        /\ a.pull_updates => ~(a.nupm_home.given \/ a.script_file \/ a.overlay_file)}
    \cup {[package_file |-> FALSE, nupm_home |-> [given |-> FALSE, path |-> NoPath],
           home_exists |-> FALSE, script_file |-> FALSE, overlay_file |-> FALSE,
           pull_updates |-> FALSE, allow_build_commands |-> "None", fetched |-> FALSE]}

\* The root manifests: its dependencies and its allow_build_commands.
RootManifests ==
    [depends : SeqsUpTo(Packages, MaxRootDeps),
     allow_build_commands : {"None", "True", "False"}]

\* The store after a build has acquired the worktree of the repository
\* (lines 660, 662 and 676).
FetchedStore == {GitBasePath(Url1), GitBarePath(Url1), GitRefDir(Url1, MainRef)}

NoFile == [written |-> FALSE, nupm_home |-> FALSE, env |-> <<>>, body |-> <<>>]

File(e, b) == [written |-> TRUE, nupm_home |-> args.nupm_home.given, env |-> e, body |-> b]

\* The build is not running.
BuildIdle ==
    /\ args = [package_file |-> FALSE, nupm_home |-> [given |-> FALSE, path |-> NoPath],
               home_exists |-> FALSE, script_file |-> FALSE, overlay_file |-> FALSE,
               pull_updates |-> FALSE, allow_build_commands |-> "None", fetched |-> FALSE]
    /\ root_manifest = [depends |-> <<>>, allow_build_commands |-> "None"]
    /\ pc = "idle"
    /\ exc = NoExc
    /\ raised_at = ""
    /\ logged = ""
    /\ exit_code = -1
    /\ load_q = <<>>
    /\ loaded = <<>>
    /\ allow_build_commands = "False"
    /\ loader_script_snippets = [list \in {"env", "use", "script"} |-> <<>>]
    /\ nupm_home_symlink_todo = <<>>
    /\ symlink_i = 1
    /\ home_state = "absent"
    /\ home_links = {}
    /\ script_file = NoFile
    /\ overlay_file = NoFile
    /\ store_fs = {}
    /\ spawned = <<>>

\* The sort is not running on its own.
SortIdle ==
    /\ snippets = <<>>
    /\ todo = <<>>
    /\ result = <<>>
    /\ last_len = 0
    /\ it = 1
    /\ sort_pc = "idle"
    /\ sort_err = <<>>

\* No function is called on its own.
CallIdle ==
    /\ call_args = <<>>
    /\ call_ret = <<>>
    /\ call_pc = "idle"

\* The process starts: nothing is loaded, the store is empty or as an
\* earlier build left it.
BuildInit ==
    /\ SortIdle
    /\ CallIdle
    /\ args \in BuildArgs
    /\ root_manifest \in RootManifests
    /\ pc = "main"
    /\ exc = NoExc
    /\ raised_at = ""
    /\ logged = ""
    /\ exit_code = -1
    /\ load_q = <<>>
    /\ loaded = <<>>
    /\ allow_build_commands = "False"
    /\ loader_script_snippets = [list \in {"env", "use", "script"} |-> <<>>]
    /\ nupm_home_symlink_todo = <<>>
    /\ symlink_i = 1
    /\ home_state = IF args.home_exists THEN "previous" ELSE "absent"
    /\ home_links = {}
    /\ script_file = NoFile
    /\ overlay_file = NoFile
    /\ store_fs = IF args.fetched THEN FetchedStore ELSE {}
    /\ spawned = <<>>

\* An exception leaves Loader.__init__ at the step now running.
Raises(e) ==
    /\ exc' = e
    /\ raised_at' = pc
    /\ pc' = "raise"

\* Lines 760-769 and 778: without a package file main warns and returns.
Main ==
    /\ pc = "main"
    /\ IF args.package_file
       THEN pc' = "init" /\ UNCHANGED <<logged, exit_code>>
       ELSE pc' = "exit" /\ logged' = "warning" /\ exit_code' = 0
    /\ UNCHANGED <<sortVars, callVars, args, root_manifest, exc, raised_at, load_q, loaded,
                   allow_build_commands, loader_script_snippets, nupm_home_symlink_todo,
                   symlink_i, home_state, home_links, script_file, overlay_file,
                   store_fs, spawned>>

\* Lines 252-267; main passes delete_existing_nupm_home=True.
LoaderInit ==
    /\ pc = "init"
    /\ allow_build_commands' =
          IF Truthy(args.allow_build_commands) THEN args.allow_build_commands ELSE "False"
    /\ IF args.nupm_home.given /\ ~(SplitLen(args.nupm_home.path) > 2)
       THEN Raises(AssertionError("the NUPM_HOME cant be this close to the file-root"))
       ELSE pc' = "root" /\ UNCHANGED <<exc, raised_at>>
    /\ UNCHANGED <<sortVars, callVars, args, root_manifest, logged, exit_code, load_q, loaded,
                   loader_script_snippets, nupm_home_symlink_todo, symlink_i, home_state,
                   home_links, script_file, overlay_file, store_fs, spawned>>

\* Lines 269-277: the root package is queued with the directory of its file.
LoadRoot ==
    /\ pc = "root"
    /\ load_q' = Append(load_q, <<Package("NO_NAME_PACKAGE", NoUrl, NoPath, NoPath,
                                          root_manifest.depends), Cwd>>)
    /\ allow_build_commands' =
          IF args.allow_build_commands # "None" THEN args.allow_build_commands
          ELSE IF Truthy(root_manifest.allow_build_commands)
               THEN root_manifest.allow_build_commands ELSE "False"
    /\ pc' = "loop"
    /\ UNCHANGED <<sortVars, callVars, args, root_manifest, exc, raised_at, logged, exit_code, loaded,
                   loader_script_snippets, nupm_home_symlink_todo, symlink_i, home_state,
                   home_links, script_file, overlay_file, store_fs, spawned>>

\* The subprocesses a handler can run from here: those of the first fetch
\* while the worktree is missing, those of an update where updates are
\* pulled, and a build command where the policy lets it run.
MayRun ==
    (IF ~Exists(store_fs, GitRefDir(Url1, MainRef))
     THEN {"clone", "fetch", "worktree", "refetch", "worktree2"} ELSE {})
        \cup (IF args.pull_updates THEN {"clean", "fetch", "reset"} ELSE {})
        \cup (IF Truthy(allow_build_commands) THEN {"build"} ELSE {})

\* The outcomes that differ in a subprocess that can run.
RunOutcomes ==
    UNION {{o \in Outcomes : \A f \in DOMAIN o : ~o[f] => f \in m} : m \in {MayRun}}

\* One turn of a loop that interprets every entry it takes from the queue.
LoadNextNoLoaded ==
    /\ pc = "loop"
    /\ load_q # <<>>
    /\ \E o \in RunOutcomes :
          \E h \in {load_package([Handler EXCEPT !.load_q = Tail(load_q)],
                                 Head(load_q)[1], Head(load_q)[2], o)} :
              /\ loaded' = Append(loaded, Head(load_q)[2])
              /\ load_q' = h.load_q
              /\ store_fs' = h.store_fs
              /\ spawned' = h.spawned
              /\ nupm_home_symlink_todo' = h.symlink_todo
              /\ loader_script_snippets' = h.snippets
              /\ home_links' = h.links
              /\ IF h.exc # NoExc THEN Raises(h.exc)
                 ELSE /\ pc' = IF h.load_q = <<>> THEN "script" ELSE "loop"
                      /\ UNCHANGED <<exc, raised_at>>
    /\ UNCHANGED <<sortVars, callVars, args, root_manifest, logged, exit_code, allow_build_commands,
                   symlink_i, home_state, script_file, overlay_file>>

\* Lines 280-285: one turn of the loop, and the test that ends it.
LoadNext ==
    /\ pc = "loop"
    /\ load_q # <<>>
    /\ \E o \in RunOutcomes :
          \E h \in {IF Head(load_q)[2] \in Range(loaded)
                    THEN [Handler EXCEPT !.load_q = Tail(load_q)]
                    ELSE load_package([Handler EXCEPT !.load_q = Tail(load_q)],
                                      Head(load_q)[1], Head(load_q)[2], o)} :
              /\ loaded' = IF Head(load_q)[2] \in Range(loaded) THEN loaded
                           ELSE Append(loaded, Head(load_q)[2])
              /\ load_q' = h.load_q
              /\ store_fs' = h.store_fs
              /\ spawned' = h.spawned
              /\ nupm_home_symlink_todo' = h.symlink_todo
              /\ loader_script_snippets' = h.snippets
              /\ home_links' = h.links
              /\ IF h.exc # NoExc THEN Raises(h.exc)
                 ELSE /\ pc' = IF h.load_q = <<>> THEN "script" ELSE "loop"
                      /\ UNCHANGED <<exc, raised_at>>
    /\ UNCHANGED <<sortVars, callVars, args, root_manifest, logged, exit_code, allow_build_commands,
                   symlink_i, home_state, script_file, overlay_file>>

\* Lines 287-307.
GenerateScript ==
    /\ pc = "script"
    /\ \E env \in {sort_loader_script_snippets(loader_script_snippets["env"])},
          body \in {sort_loader_script_snippets(
                      loader_script_snippets["use"] \o loader_script_snippets["script"])} :
           IF ~args.script_file
           THEN pc' = "overlay" /\ UNCHANGED <<exc, raised_at, script_file>>
           ELSE IF env.pc = "error" \/ body.pc = "error"
                THEN Raises(AssertionError("circular dependencies")) /\ UNCHANGED script_file
           ELSE /\ script_file' = File(env.result, body.result)
                /\ pc' = "overlay"
                /\ UNCHANGED <<exc, raised_at>>
    /\ UNCHANGED <<sortVars, callVars, args, root_manifest, logged, exit_code, load_q, loaded,
                   allow_build_commands, loader_script_snippets, nupm_home_symlink_todo,
                   symlink_i, home_state, home_links, overlay_file, store_fs, spawned>>

\* Lines 308-318.
GenerateOverlay ==
    /\ pc = "overlay"
    /\ \E env \in {sort_loader_script_snippets(loader_script_snippets["env"])},
          body \in {sort_loader_script_snippets(loader_script_snippets["use"])} :
           IF ~args.overlay_file
           THEN pc' = "home" /\ UNCHANGED <<exc, raised_at, overlay_file>>
           ELSE IF env.pc = "error" \/ body.pc = "error"
                THEN Raises(AssertionError("circular dependencies")) /\ UNCHANGED overlay_file
           ELSE /\ overlay_file' = File(env.result, body.result)
                /\ pc' = "home"
                /\ UNCHANGED <<exc, raised_at>>
    /\ UNCHANGED <<sortVars, callVars, args, root_manifest, logged, exit_code, load_q, loaded,
                   allow_build_commands, loader_script_snippets, nupm_home_symlink_todo,
                   symlink_i, home_state, home_links, script_file, store_fs, spawned>>

\* Lines 320-323 moved before line 287: the home directory is removed
\* before the script is written (C4 does not hold of this variant).
RemoveHomeBeforeScript ==
    /\ pc = "script"
    /\ args.nupm_home.given
    /\ home_state = "previous"
    /\ home_state' = "removed"
    /\ UNCHANGED <<sortVars, callVars, args, root_manifest, pc, exc, raised_at, logged, exit_code,
                   load_q, loaded, allow_build_commands, loader_script_snippets,
                   nupm_home_symlink_todo, symlink_i, home_links, script_file,
                   overlay_file, store_fs, spawned>>

\* Lines 320-323: rmtree takes the home directory and all below it.
RemoveHome ==
    /\ pc = "home"
    /\ IF args.nupm_home.given /\ home_state # "absent"
       THEN /\ home_state' = "removed"
            /\ store_fs' = {d \in store_fs : ~InsideDir(d, AbsPath(args.nupm_home.path))}
       ELSE UNCHANGED <<home_state, store_fs>>
    /\ pc' = "dirs"
    /\ UNCHANGED <<sortVars, callVars, args, root_manifest, exc, raised_at, logged, exit_code, load_q,
                   loaded, allow_build_commands, loader_script_snippets,
                   nupm_home_symlink_todo, symlink_i, home_links, script_file,
                   overlay_file, spawned>>

\* Lines 324-326.
MakeDirs ==
    /\ pc = "dirs"
    /\ home_state' = IF args.nupm_home.given THEN "dirs" ELSE home_state
    /\ pc' = "links"
    /\ UNCHANGED <<sortVars, callVars, args, root_manifest, exc, raised_at, logged, exit_code, load_q,
                   loaded, allow_build_commands, loader_script_snippets,
                   nupm_home_symlink_todo, symlink_i, home_links, script_file,
                   overlay_file, store_fs, spawned>>

\* The directory that is to hold the link dst is there: a directory of the
\* home made in lines 324-326, or one below a directory of the store.
DstDirExists(dst) ==
    \/ args.nupm_home.given /\ InsideDir(dst, AbsPath(args.nupm_home.path))
    \/ \E q \in store_fs : InsideDir(dst, q)

\* The path dst is taken: by a link, by a directory of the home made in
\* lines 324-326 or by a directory of the store.
DstExists(dst) ==
    \/ \E l \in home_links : l[2] = dst
    \/ /\ args.nupm_home.given
       /\ dst \in {AbsPath(args.nupm_home.path)} \cup
                  {AbsPath(PathJoin(args.nupm_home.path, Rel(<<d>>))) :
                       d \in {"modules", "bin", "overlays"}}
    \/ Exists(store_fs, dst)

\* Lines 328-329, one turn: os.symlink fails where dst exists and where
\* its directory is missing.
Symlink ==
    /\ pc = "links"
    /\ symlink_i <= Len(nupm_home_symlink_todo)
    /\ IF DstExists(nupm_home_symlink_todo[symlink_i][2])
       THEN /\ Raises([type |-> "FileExistsError", msg |-> "File exists"])
            /\ UNCHANGED <<home_links, symlink_i>>
       ELSE IF ~DstDirExists(nupm_home_symlink_todo[symlink_i][2])
       THEN /\ Raises([type |-> "FileNotFoundError", msg |-> "No such file or directory"])
            /\ UNCHANGED <<home_links, symlink_i>>
       ELSE /\ home_links' = home_links \cup {nupm_home_symlink_todo[symlink_i]}
            /\ symlink_i' = symlink_i + 1
            /\ UNCHANGED <<pc, exc, raised_at>>
    /\ UNCHANGED <<sortVars, callVars, args, root_manifest, logged, exit_code, load_q, loaded,
                   allow_build_commands, loader_script_snippets, nupm_home_symlink_todo,
                   home_state, script_file, overlay_file, store_fs, spawned>>

\* Lines 331-333 without --nu-config, and line 794: main returns.
LoaderReturn ==
    /\ pc = "links"
    /\ symlink_i > Len(nupm_home_symlink_todo)
    /\ pc' = "exit"
    /\ exit_code' = 0
    /\ UNCHANGED <<sortVars, callVars, args, root_manifest, exc, raised_at, logged, load_q, loaded,
                   allow_build_commands, loader_script_snippets, nupm_home_symlink_todo,
                   symlink_i, home_state, home_links, script_file, overlay_file,
                   store_fs, spawned>>

\* Lines 789-794: an AssertionError with a message is logged and main
\* returns; one without a message, or another exception, ends the process
\* with a traceback.
Except ==
    /\ pc = "raise"
    /\ IF exc.type = "AssertionError" /\ exc.msg # ""
       THEN logged' = "error" /\ exit_code' = 0
       ELSE logged' = "traceback" /\ exit_code' = 1
    /\ pc' = "exit"
    /\ UNCHANGED <<sortVars, callVars, args, root_manifest, exc, raised_at, load_q, loaded,
                   allow_build_commands, loader_script_snippets, nupm_home_symlink_todo,
                   symlink_i, home_state, home_links, script_file, overlay_file,
                   store_fs, spawned>>

BuildNext ==
    \/ Main
    \/ LoaderInit
    \/ LoadRoot
    \/ LoadNext
    \/ GenerateScript
    \/ GenerateOverlay
    \/ RemoveHome
    \/ MakeDirs
    \/ Symlink
    \/ LoaderReturn
    \/ Except

\* ------------------------------------------------------------------------
\* Versions (class SemVer)
\* ------------------------------------------------------------------------

\* The greatest version number of the version strings of the model.
MaxVer == 2

\* A number of a SemVer that is None.
NoNumber == -1

\* An op that is None; the op "" is the empty sequence.
OpNone == <<"None">>

\* string.digits
Digits == <<"0", "1", "2", "3", "4", "5", "6", "7", "8", "9">>

\* string.ascii_letters
AsciiLetters ==
    {"a", "b", "c", "d", "e", "f", "g", "h", "i", "j", "k", "l", "m", "n", "o", "p", "q",
     "r", "s", "t", "u", "v", "w", "x", "y", "z", "A", "B", "C", "D", "E", "F", "G", "H",
     "I", "J", "K", "L", "M", "N", "O", "P", "Q", "R", "S", "T", "U", "V", "W", "X", "Y",
     "Z"}

\* text.split("."), line 39: cur is the section being read.
RECURSIVE SplitDot(_, _)
SplitDot(text, cur) ==
    IF text = <<>> THEN <<cur>>
    ELSE IF Head(text) = "." THEN <<cur>> \o SplitDot(Tail(text), <<>>)
    ELSE SplitDot(Tail(text), Append(cur, Head(text)))

IsDigit(c) == \E i \in DOMAIN Digits : Digits[i] = c

\* Line 38: the digits of a section.
DigitsOf(section) == SelectSeq(section, IsDigit)

\* int() of a string of digits.
RECURSIVE IntOf(_)
IntOf(ds) ==
    IF ds = <<>> THEN 0
    ELSE 10 * IntOf(SubSeq(ds, 1, Len(ds) - 1))
            + (CHOOSE i \in DOMAIN Digits : Digits[i] = ds[Len(ds)]) - 1

\* Lines 36-41: a section without a digit gives no number.
RECURSIVE NumbersOf(_)
NumbersOf(sections) ==
    IF sections = <<>> THEN <<>>
    ELSE (IF DigitsOf(Head(sections)) = <<>> THEN <<>>
          ELSE <<IntOf(DigitsOf(Head(sections)))>>)
             \o NumbersOf(Tail(sections))

\* Lines 42-44 on the list of numbers.
SemVerOf(op, numbers) ==
    [op |-> op,
     major |-> IF Len(numbers) # 0 THEN numbers[1] ELSE NoNumber,
     minor |-> IF Len(numbers) > 1 THEN numbers[2] ELSE NoNumber,
     patch |-> IF Len(numbers) > 2 THEN numbers[3] ELSE NoNumber]

\* Lines 32-46, SemVer.__init__ on the characters of text; None and "" are
\* the empty sequence (line 33), and "" is found in "<>^~" (line 35).
SemVer(text) ==
    SemVerOf(IF text # <<>> /\ \A i \in DOMAIN text : text[i] \in AsciiLetters THEN text
             ELSE IF text = <<>> THEN <<>>
             ELSE IF text[1] \in {"<", ">", "^", "~"} THEN <<text[1]>>
             ELSE OpNone,
             NumbersOf(SplitDot(text, <<>>)))

\* (op or '') in "<>^~", line 51.
InOps(op) == op \in {OpNone, <<>>, <<"<">>, <<">">>, <<"^">>, <<"~">>}

\* Lines 48-74 with line 63 reading `self.op == ">"`: a caret does not
\* reach a greater minor (C20 does not hold of this variant).
SemVer__eq__caret_as_tilde(self, other) ==
    IF ~InOps(self.op) \/ ~InOps(other.op) THEN self.op = other.op
    ELSE IF \/ self.major = NoNumber \/ other.major = NoNumber
            \/ (self.op = <<">">> \/ other.op = <<"<">>) /\ self.major < other.major
            \/ (other.op = <<">">> \/ self.op = <<"<">>) /\ other.major < self.major
         THEN TRUE
    ELSE IF self.major # other.major THEN FALSE
    ELSE IF \/ self.minor = NoNumber \/ other.minor = NoNumber
            \/ (self.op = <<">">> \/ other.op = <<"<">>) /\ self.minor < other.minor
            \/ (other.op \in {<<">">>, <<"^">>} \/ self.op = <<"<">>) /\ other.minor < self.minor
         THEN TRUE
    ELSE IF self.minor # other.minor THEN FALSE
    ELSE \/ self.patch = NoNumber \/ other.patch = NoNumber
         \/ self.patch = other.patch
         \/ (self.op \in {<<">">>, <<"^">>, <<"~">>} \/ other.op = <<"<">>)
               /\ self.patch < other.patch
         \/ (other.op \in {<<">">>, <<"^">>, <<"~">>} \/ self.op = <<"<">>)
               /\ other.patch < self.patch

\* Lines 48-74, SemVer.__eq__ on two SemVers.
SemVer__eq__(self, other) ==
    IF ~InOps(self.op) \/ ~InOps(other.op) THEN self.op = other.op
    ELSE IF \/ self.major = NoNumber \/ other.major = NoNumber
            \/ (self.op = <<">">> \/ other.op = <<"<">>) /\ self.major < other.major
            \/ (other.op = <<">">> \/ self.op = <<"<">>) /\ other.major < self.major
         THEN TRUE
    ELSE IF self.major # other.major THEN FALSE
    ELSE IF \/ self.minor = NoNumber \/ other.minor = NoNumber
            \/ (self.op \in {<<">">>, <<"^">>} \/ other.op = <<"<">>) /\ self.minor < other.minor
            \/ (other.op \in {<<">">>, <<"^">>} \/ self.op = <<"<">>) /\ other.minor < self.minor
         THEN TRUE
    ELSE IF self.minor # other.minor THEN FALSE
    ELSE \/ self.patch = NoNumber \/ other.patch = NoNumber
         \/ self.patch = other.patch
         \/ (self.op \in {<<">">>, <<"^">>, <<"~">>} \/ other.op = <<"<">>)
               /\ self.patch < other.patch
         \/ (other.op \in {<<">">>, <<"^">>, <<"~">>} \/ self.op = <<"<">>)
               /\ other.patch < self.patch

\* Lines 76-91, SemVer.__gt__ on two SemVers.
SemVer__gt__(self, other) ==
    IF other.major = NoNumber THEN TRUE
    ELSE IF self.op = <<"l", "a", "t", "e", "s", "t">> THEN TRUE
    ELSE IF other.op = <<"l", "a", "t", "e", "s", "t">> THEN FALSE
    ELSE IF self.major = NoNumber \/ self.major < other.major THEN FALSE
    ELSE IF self.major > other.major \/ other.minor = NoNumber THEN TRUE
    ELSE IF self.minor = NoNumber \/ self.minor < other.minor THEN FALSE
    ELSE IF self.minor > other.minor \/ other.patch = NoNumber THEN TRUE
    ELSE ~(self.patch = NoNumber \/ self.patch < other.patch)

\* str() of the numbers of a list, joined by ".".
RECURSIVE DottedText(_)
DottedText(numbers) ==
    IF numbers = <<>> THEN <<>>
    ELSE IF Len(numbers) = 1 THEN <<Digits[numbers[1] + 1]>>
    ELSE <<Digits[numbers[1] + 1], ".">> \o DottedText(Tail(numbers))

\* The version strings "M.m.p" of candidates.
CandidateTexts == {DottedText(n) : n \in [1..3 -> 0..MaxVer]}

\* The version strings "^M.m", "^M.m.p", "~M.m" and "~M.m.p" asked for.
WantedTexts ==
    {<<o>> \o DottedText(n) : o \in {"^", "~"},
                             n \in [1..2 -> 0..MaxVer] \cup [1..3 -> 0..MaxVer]}

\* SemVer(wanted) == SemVer(candidate) is evaluated.
SemVerEq ==
    /\ call_pc = "call"
    /\ call_ret' = SemVer__eq__(SemVer(call_args.wanted), SemVer(call_args.candidate))
    /\ call_pc' = "return"
    /\ UNCHANGED <<sortVars, buildVars, call_args>>

SemVerInit ==
    /\ SortIdle
    /\ BuildIdle
    /\ call_args \in [wanted : WantedTexts, candidate : CandidateTexts]
    /\ call_ret = <<>>
    /\ call_pc = "call"

\* ------------------------------------------------------------------------
\* Package.include_data
\* ------------------------------------------------------------------------

\* The fields of Package that hold None or a string.
ScalarFields ==
    {"source_type", "source_uri", "source_git_ref", "source_path_offset", "package_format"}

Dict(optional) == IF optional = None THEN {} ELSE optional[1]

Keys(dict) == {p[1] : p \in dict}

\* {**a, **b}: the pairs of b, and those of a whose key b does not have.
DictMerge(a, b) == {p \in a : p[1] \notin Keys(b)} \cup b

\* Lines 117-131 with lines 118-119 reading `if not self.depends`: an empty
\* list is overwritten (C17 does not hold of this variant).
include_data_if_falsy(self, other) ==
    [self EXCEPT
        !.depends = IF @ = None \/ @ = Some(<<>>) THEN other.depends ELSE @,
        !.source_type = IF @ = "None" THEN other.source_type ELSE @,
        !.source_uri = IF @ = "None" THEN other.source_uri ELSE @,
        !.source_git_ref = IF @ = "None" THEN other.source_git_ref ELSE @,
        !.source_path_offset = IF @ = "None" THEN other.source_path_offset ELSE @,
        !.package_format = IF @ = "None" THEN other.package_format ELSE @,
        !.extra_data = IF Dict(other.extra_data) # {}
                       THEN Some(DictMerge(Dict(other.extra_data), Dict(@)))
                       ELSE @]

\* Lines 117-131: self after self.include_data(other).
include_data(self, other) ==
    [self EXCEPT
        !.depends = IF @ = None THEN other.depends ELSE @,
        !.source_type = IF @ = "None" THEN other.source_type ELSE @,
        !.source_uri = IF @ = "None" THEN other.source_uri ELSE @,
        !.source_git_ref = IF @ = "None" THEN other.source_git_ref ELSE @,
        !.source_path_offset = IF @ = "None" THEN other.source_path_offset ELSE @,
        !.package_format = IF @ = "None" THEN other.package_format ELSE @,
        !.extra_data = IF Dict(other.extra_data) # {}
                       THEN Some(DictMerge(Dict(other.extra_data), Dict(@)))
                       ELSE @]

\* The receivers: every field is None or set, depends also to the empty
\* list and extra_data also to the empty dict.
IncludeSelves ==
    [name : {"A"},
     depends : {None, Some(<<>>), Some(<<"d">>)},
     source_type : {"None", "s"}, source_uri : {"None", "s"},
     source_git_ref : {"None", "s"}, source_path_offset : {"None", "s"},
     package_format : {"None", "s"},
     registries : {None, Some(<<"r">>)},
     extra_data : {None, Some({}), Some({<<"k1", "s">>})}]

\* The packages included: their string fields are all None, all set, or
\* set in turn.
IncludeOthers ==
    {o \in [name : {"B"},
            depends : {None, Some(<<"e">>)},
            source_type : {"None", "o"}, source_uri : {"None", "o"},
            source_git_ref : {"None", "o"}, source_path_offset : {"None", "o"},
            package_format : {"None", "o"},
            registries : {Some(<<"q">>)},
            extra_data : {None, Some({}), Some({<<"k1", "o">>, <<"k2", "o">>})}] :
        /\ o.source_git_ref = o.source_type
        /\ o.package_format = o.source_type
        /\ o.source_path_offset = o.source_uri}

\* self.include_data(other) is called; call_ret is self after the call.
IncludeData ==
    /\ call_pc = "call"
    /\ call_ret' = include_data(call_args.self, call_args.other)
    /\ call_pc' = "return"
    /\ UNCHANGED <<sortVars, buildVars, call_args>>

IncludeInit ==
    /\ SortIdle
    /\ BuildIdle
    /\ call_args \in [self : IncludeSelves, other : IncludeOthers]
    /\ call_ret = <<>>
    /\ call_pc = "call"

\* ------------------------------------------------------------------------
\* Registries (latest_matching_dict_entry, get_by_name,
\* load_nupm_package_from_registry_nuon)
\* ------------------------------------------------------------------------

\* A Python dict that is iterated is the sequence of its <<key, value>>
\* items in insertion order.  d[k] = v:
DictSet(d, k, v) ==
    IF \E i \in DOMAIN d : d[i][1] = k
    THEN [i \in DOMAIN d |-> IF d[i][1] = k THEN <<k, v>> ELSE d[i]]
    ELSE Append(d, <<k, v>>)

\* d[k] for a key that d has.
DictGet(d, k) == d[CHOOSE i \in DOMAIN d : d[i][1] = k][2]

\* Lines 99-101: one turn of the loop, biggest_available being None or the
\* option kept so far (b, its value).
LatestOption(self, option, biggest_available) ==
    CHOOSE kept \in
        {IF /\ self.op = <<"l", "a", "t", "e", "s", "t">> \/ SemVer__eq__(self, SemVer(option[1]))
            /\ b = None \/ SemVer__gt__(SemVer(option[1]), SemVer(b[1][1]))
         THEN Some(option)
         ELSE b : b \in {biggest_available}} : TRUE

\* Lines 97-101: the loop over the items whose key is not "_".
RECURSIVE LatestLoop(_, _, _)
LatestLoop(self, options, biggest_available) ==
    IF options = <<>> THEN biggest_available
    ELSE IF Head(options)[1] = <<"_">> THEN LatestLoop(self, Tail(options), biggest_available)
    ELSE LatestLoop(self, Tail(options), LatestOption(self, Head(options), biggest_available))

\* Line 102: the value of the option kept, not the option.
LatestValue(biggest_available) ==
    IF biggest_available = None THEN None ELSE Some(biggest_available[1][2])

\* Lines 96-102, SemVer.latest_matching_dict_entry: None or the value found.
latest_matching_dict_entry(self, options) == LatestValue(LatestLoop(self, options, None))

\* What a call returned or raised.
Returned(v) == [exc |-> "", value |-> v]

Raised(e) == [exc |-> e, value |-> None]

\* The records of a package file of a nupm registry.
NuonRecords ==
    {[name |-> n, version |-> v, type |-> "git", path |-> n,
      info |-> [url |-> "https://h/r", revision |-> v]] :
        n \in {"p", "q"},
        v \in {<<"1", ".", "0", ".", "0">>, <<"1", ".", "2", ".", "0">>,
               <<"2", ".", "0", ".", "0">>}}

\* Line 193, the dict comprehension: the records of the name asked for (all
\* where it is None) by their version.
RECURSIVE NuonDict(_, _)
NuonDict(json_data, name) ==
    IF json_data = <<>> THEN <<>>
    ELSE IF name \in {"None", json_data[Len(json_data)].name}
         THEN DictSet(NuonDict(SubSeq(json_data, 1, Len(json_data) - 1), name),
                      json_data[Len(json_data)].version, json_data[Len(json_data)])
    ELSE NuonDict(SubSeq(json_data, 1, Len(json_data) - 1), name)

\* Lines 198-206: the Package of a record.
NupmPackage(package_nuon) ==
    [name |-> package_nuon.name, depends |-> None, source_type |-> package_nuon.type,
     source_uri |-> package_nuon.info.url, source_git_ref |-> package_nuon.info.revision,
     source_path_offset |-> package_nuon.path, registries |-> None,
     package_format |-> "nupm", extra_data |-> None]

\* Lines 194-206 on what line 193 returned.  latest_matching_dict_entry has
\* returned the record itself, a dict whose keys are strings: the subscript
\* [1] of line 197 finds no key 1 and raises KeyError.
NuonReturn(biggest_available) ==
    IF biggest_available = None THEN Returned(None) ELSE Raised("KeyError")

\* Lines 190-206 on a list json_data.
load_nupm_package_from_registry_nuon(json_data, name, version) ==
    NuonReturn(latest_matching_dict_entry(SemVer(version), NuonDict(json_data, name)))

\* The call of load_nupm_package_from_registry_nuon.
LoadNuon ==
    /\ call_pc = "call"
    /\ call_ret' = load_nupm_package_from_registry_nuon(call_args.json_data, call_args.name,
                                                       call_args.version)
    /\ call_pc' = IF call_ret'.exc = "" THEN "return" ELSE "raise"
    /\ UNCHANGED <<sortVars, buildVars, call_args>>

\* The longest package file of a nupm registry.
MaxRecords == 2

\* The versions asked for: None, "1.2.0", "^1.0" and "3.0.0".
NuonVersions ==
    {<<>>, <<"1", ".", "2", ".", "0">>, <<"^", "1", ".", "0">>, <<"3", ".", "0", ".", "0">>}

NuonInit ==
    /\ SortIdle
    /\ BuildIdle
    /\ call_args \in [json_data : SeqsUpTo(NuonRecords, MaxRecords), name : {"None", "p"},
                      version : NuonVersions]
    /\ call_ret = <<>>
    /\ call_pc = "call"

\* A value of a version file of a numng registry: a string, the alias of
\* another key, or the JSON object of a package.
AliasTo(key) == [is_str |-> TRUE, str |-> key, json |-> [source_uri |-> "None", git_ref |-> "None"]]

PackageJson(uri, ref) == [is_str |-> FALSE, str |-> <<>>, json |-> [source_uri |-> uri, git_ref |-> ref]]

\* The keys of the version files of the model: "latest", "stable", "1.0.0".
VersionKeys ==
    <<<<"l", "a", "t", "e", "s", "t">>, <<"s", "t", "a", "b", "l", "e">>,
      <<"1", ".", "0", ".", "0">>>>

\* The values of the keys: "latest" is an alias of itself, of another key
\* or of "none", which no file has; "stable" is an alias or a package;
\* "1.0.0" is a package or an alias of "latest".
VersionValues ==
    <<{AliasTo(k) : k \in Range(VersionKeys) \cup {<<"n", "o", "n", "e">>}},
      {AliasTo(VersionKeys[1]), AliasTo(VersionKeys[3]), PackageJson("https://h/r", "v2")},
      {PackageJson("https://h/r", "v1"), AliasTo(VersionKeys[1])}>>

\* The version files: each key of the model is missing or has a value, and
\* the defaults "_" are there or not.
VersionDicts ==
    {SelectSeq([i \in 1..4 |-> IF i = 4 THEN <<<<"_">>, PackageJson("https://h/d", "None")>>
                               ELSE <<VersionKeys[i], f[i]>>],
               LAMBDA item : item[1] \in keys) :
        f \in {g \in [1..3 -> UNION Range(VersionValues)] :
                  \A i \in 1..3 : g[i] \in VersionValues[i]},
        keys \in SUBSET (Range(VersionKeys) \cup {<<"_">>})}

\* Lines 617-641 for a JSON object with the keys name, source_uri and
\* git_ref, a key without a value being None.
load_package_from_json(name, json_data) ==
    [name |-> name, depends |-> None, source_type |-> "None",
     source_uri |-> json_data.source_uri, source_git_ref |-> json_data.git_ref,
     source_path_offset |-> "None", registries |-> None, package_format |-> "None",
     extra_data |-> None]

\* `key in version_dict`
HasKey(d, key) == \E i \in DOMAIN d : d[i][1] = key

\* Lines 143-156 of NumngPackageRegistry.get_by_name: the file is read and
\* the version is looked up; call_ret is found_package.
GetByNameFind ==
    /\ call_pc = "call"
    /\ IF ~call_args.isfile THEN call_pc' = "return" /\ call_ret' = Returned(None)
       ELSE \E found_package \in
                {latest_matching_dict_entry(
                     SemVer(IF call_args.version = <<>> THEN <<"l", "a", "t", "e", "s", "t">>
                            ELSE call_args.version),
                     call_args.version_dict)} :
              IF found_package = None
              THEN call_pc' = "return" /\ call_ret' = Returned(None)
              ELSE call_pc' = "while" /\ call_ret' = Returned(found_package)
    /\ UNCHANGED <<sortVars, buildVars, call_args>>

\* Line 157: found_package is a string, the loop is entered once more.
GetByNameWhile ==
    /\ call_pc = "while"
    /\ call_ret.value[1].is_str
    /\ call_pc' = "alias"
    /\ UNCHANGED <<sortVars, buildVars, call_args, call_ret>>

\* Lines 158-159: the body of the loop over the aliases.
GetByNameAlias ==
    /\ call_pc = "alias"
    /\ IF ~HasKey(call_args.version_dict, call_ret.value[1].str)
       THEN call_pc' = "raise" /\ call_ret' = Raised("AssertionError")
       ELSE /\ call_ret' = Returned(Some(DictGet(call_args.version_dict, call_ret.value[1].str)))
            /\ call_pc' = "while"
    /\ UNCHANGED <<sortVars, buildVars, call_args>>

\* Lines 157 and 160-164: the loop ends at a package, whose defaults are
\* included.
GetByNameReturn ==
    /\ call_pc = "while"
    /\ ~call_ret.value[1].is_str
    /\ call_ret' =
          Returned(Some(
              IF HasKey(call_args.version_dict, <<"_">>)
              THEN include_data(load_package_from_json("p", call_ret.value[1].json),
                                load_package_from_json("NO_NAME_PACKAGE",
                                    DictGet(call_args.version_dict, <<"_">>).json))
              ELSE load_package_from_json("p", call_ret.value[1].json)))
    /\ call_pc' = "return"
    /\ UNCHANGED <<sortVars, buildVars, call_args>>

GetByNameNext ==
    \/ GetByNameFind
    \/ GetByNameWhile
    \/ GetByNameAlias
    \/ GetByNameReturn

\* The versions asked for: None, "stable" and "^1.0".
GetByNameVersions == {<<>>, <<"s", "t", "a", "b", "l", "e">>, <<"^", "1", ".", "0">>}

GetByNameInit ==
    /\ SortIdle
    /\ BuildIdle
    /\ call_args \in [isfile : {TRUE}, version_dict : VersionDicts,
                       version : GetByNameVersions]
                          \cup {[isfile |-> FALSE, version_dict |-> <<>>, version |-> <<>>]}
    /\ call_ret = <<>>
    /\ call_pc = "call"

\* ------------------------------------------------------------------------
\* Comparisons of versions (the match test of line 99 and SemVer.__gt__)
\* ------------------------------------------------------------------------

\* The op of SemVer("latest").
Latest == <<"l", "a", "t", "e", "s", "t">>

\* Line 99: self is the version asked for, candidate the SemVer of a key.
MatchTest(self, candidate) == self.op = Latest \/ SemVer__eq__(self, candidate)

\* The version strings compared: words, None (the empty string, line 33),
\* versions of one to three numbers, and versions with an operator.
CompareTexts ==
    {Latest, <<"s", "t", "a", "b", "l", "e">>, <<>>,
     <<"1">>, <<"1", ".", "0">>, <<"1", ".", "0", ".", "0">>, <<"1", ".", "2", ".", "0">>,
     <<"2", ".", "0", ".", "0">>, <<"^", "1", ".", "0">>, <<"~", "1", ".", "0", ".", "0">>,
     <<">", "1", ".", "0", ".", "0">>, <<"<", "2", ".", "0", ".", "0">>}

\* The match test of line 99 is evaluated with a asked for and b the key.
CompareMatch ==
    /\ call_pc = "call"
    /\ call_ret' = [match |-> MatchTest(SemVer(call_args.a), SemVer(call_args.b))]
    /\ call_pc' = "matched"
    /\ UNCHANGED <<sortVars, buildVars, call_args>>

\* SemVer(a) > SemVer(b) is evaluated.
CompareGt ==
    /\ call_pc = "matched"
    /\ call_ret' = [match |-> call_ret.match,
                    gt |-> SemVer__gt__(SemVer(call_args.a), SemVer(call_args.b))]
    /\ call_pc' = "return"
    /\ UNCHANGED <<sortVars, buildVars, call_args>>

CompareNext == CompareMatch \/ CompareGt

CompareInit ==
    /\ SortIdle
    /\ BuildIdle
    /\ call_args \in [a : CompareTexts, b : CompareTexts]
    /\ call_ret = <<>>
    /\ call_pc = "call"

\* ------------------------------------------------------------------------
\* latest_matching_dict_entry called on its own
\* ------------------------------------------------------------------------

\* The greatest number of items of the dicts searched.
MaxOptions == 3

\* The keys of the dicts searched; the value under a key is the key's
\* text, so that a value tells which key was selected.
OptionKeys ==
    {<<"_">>, Latest, <<"1", ".", "0", ".", "0">>, <<"1", ".", "2", ".", "0">>,
     <<"2", ".", "0", ".", "0">>}

\* The dicts of at most MaxOptions items, in every insertion order.
OptionDicts ==
    {[i \in DOMAIN ks |-> <<ks[i], ks[i]>>] :
        ks \in {s \in SeqsUpTo(OptionKeys, MaxOptions) :
                   \A i, j \in DOMAIN s : i # j => s[i] # s[j]}}

\* The versions asked for: latest, None, ^1.0 and 1.2.0.
LatestWanted == {Latest, <<>>, <<"^", "1", ".", "0">>, <<"1", ".", "2", ".", "0">>}

\* SemVer(wanted).latest_matching_dict_entry(options) is evaluated.
LatestEntry ==
    /\ call_pc = "call"
    /\ call_ret' = Returned(latest_matching_dict_entry(SemVer(call_args.wanted),
                                                       call_args.options))
    /\ call_pc' = "return"
    /\ UNCHANGED <<sortVars, buildVars, call_args>>

LatestInit ==
    /\ SortIdle
    /\ BuildIdle
    /\ call_args \in [wanted : LatestWanted, options : OptionDicts]
    /\ call_ret = <<>>
    /\ call_pc = "call"

\* ------------------------------------------------------------------------
\* get_git_ref_path called on its own
\* ------------------------------------------------------------------------

\* The refs asked for: None, a branch, a short hash, a branch with "/", the
\* branch "feature_x" and the ref "__bare__".
GitRefs ==
    {NoPath, MainRef, Rel(<<"abc">>), FeatureRef, Rel(<<"feature_x">>), Rel(<<"__bare__">>)}

\* The urls asked for: "https://h/r", "http://h/r", "https://h/r:1",
\* "https://h/r_1" and "h/r".
GitUrls ==
    {Url1, [scheme |-> "http", segs |-> <<"h", "r">>],
     [scheme |-> "https", segs |-> <<"h", "r:1">>],
     [scheme |-> "https", segs |-> <<"h", "r_1">>],
     [scheme |-> "", segs |-> <<"h", "r">>]}

\* The store an earlier call for url and ref has left (lines 660, 662 and
\* 676).
StoreAfter(url, ref) == {GitBasePath(url), GitBarePath(url), GitRefDir(url, ref)}

\* The stores the call finds: empty, or with one worktree of an earlier
\* call.
GitStores ==
    {{}} \cup {StoreAfter(url, ref) : url \in {u \in GitUrls : u.scheme # ""},
                                      ref \in GitRefs \ {NoPath}}

\* get_git_ref_path(url, ref, download=True, update=update) is evaluated.
GitCall ==
    /\ call_pc = "call"
    /\ \E r \in {get_git_ref_path(call_args.url, call_args.ref, call_args.update,
                                  call_args.fs, call_args.o)} :
          /\ call_ret' = r
          /\ call_pc' = IF r.exc = NoExc THEN "return" ELSE "raise"
    /\ UNCHANGED <<sortVars, buildVars, call_args>>

GitInit ==
    /\ SortIdle
    /\ BuildIdle
    /\ call_args \in [url : GitUrls,
                      ref : GitRefs, update : BOOLEAN, fs : GitStores, o : Outcomes]
    /\ call_ret = <<>>
    /\ call_pc = "call"

\* ------------------------------------------------------------------------
\* numng build on packages of every format
\* ------------------------------------------------------------------------

\* The directories of the repository that hold a package of the formats
\* numng, nupm and packer, and the formats a manifest declares for them.
FormatDirs == {"all", "pkn", "pk", "pk2", "nl", "nd", "nq", "u", "u2", "s", "d"}

Formats == {"None", "numng", "nupm", "packer", "packer.nu"}

PkgP(dir, format) ==
    [Package("P", Url1, NoPath, Rel(<<dir>>), <<>>) EXCEPT !.package_format = format]

\* The package whose numng.json links A in at y/dep.
PkgY == PkgB(Rel(<<"y">>))

FormatPackages == {PkgP(dir, format) : dir \in FormatDirs, format \in Formats} \cup {PkgY}

\* The path of the link in the directory y.
LinkDst == PathJoin(Dir("y"), Rel(<<"dep">>))

\* What the build finds at LinkDst: nothing, a directory, a link to the
\* worktree of A, a link to another directory of the store, and a link to a
\* directory that is gone.
LinkStates == {"absent", "dir", "same", "other", "dangling"}

FoundLinks(link) ==
    IF link = "same" THEN {<<Worktree, LinkDst>>}
    ELSE IF link = "other" THEN {<<GitBarePath(Url1), LinkDst>>}
    ELSE IF link = "dangling" THEN {<<Path(TRUE, <<"home", "user", "gone">>), LinkDst>>}
    ELSE {}

\* The command lines and the disks of these builds: link says what is at
\* LinkDst, which takes the worktree of an earlier build.
FormatArgs ==
    {[package_file |-> TRUE, nupm_home |-> nupm_home, home_exists |-> FALSE,
      script_file |-> files, overlay_file |-> files, pull_updates |-> FALSE,
      allow_build_commands |-> allow, fetched |-> fetched, link |-> link] :
        nupm_home \in {[given |-> FALSE, path |-> NoPath],
                       [given |-> TRUE, path |-> Path(TRUE, <<"home", "user", "nupm">>)]},
        files \in BOOLEAN, allow \in {"None", "'true'", "'false'"},
        fetched \in BOOLEAN, link \in LinkStates}

\* The process starts with a root manifest that names one package.
FormatsInit ==
    /\ SortIdle
    /\ CallIdle
    /\ args \in FormatArgs
    /\ root_manifest \in [depends : {<<p>> : p \in FormatPackages},
                          allow_build_commands : {"None", "True", "False"}]
    /\ args.link # "absent" => args.fetched /\ root_manifest.depends = <<PkgY>>
    /\ pc = "main"
    /\ exc = NoExc
    /\ raised_at = ""
    /\ logged = ""
    /\ exit_code = -1
    /\ load_q = <<>>
    /\ loaded = <<>>
    /\ allow_build_commands = "False"
    /\ loader_script_snippets = [list \in {"env", "use", "script"} |-> <<>>]
    /\ nupm_home_symlink_todo = <<>>
    /\ symlink_i = 1
    /\ home_state = "absent"
    /\ home_links = FoundLinks(args.link)
    /\ script_file = NoFile
    /\ overlay_file = NoFile
    /\ store_fs = IF ~args.fetched THEN {}
                  ELSE IF args.link = "dir" THEN FetchedStore \cup {LinkDst}
                  ELSE FetchedStore
    /\ spawned = <<>>

\* ------------------------------------------------------------------------
\* The load loop on manifests that name each other
\* ------------------------------------------------------------------------

\* The dependencies of the root manifest: packages whose manifests name
\* each other or themselves, and A, which names itself in the root manifest.
LoopPackages == {PkgCa, PkgCb, PkgCs, PkgASelf}

LoopArgs ==
    {a \in [package_file : {TRUE},
            nupm_home : {[given |-> FALSE, path |-> NoPath],
                         [given |-> TRUE, path |-> Path(TRUE, <<"home", "user", "nupm">>)]},
            home_exists : {FALSE}, script_file : BOOLEAN, overlay_file : {FALSE},
            pull_updates : BOOLEAN, allow_build_commands : {"None"}, fetched : BOOLEAN] :
        a.pull_updates => ~(a.nupm_home.given \/ a.script_file)}

LoopInit ==
    /\ SortIdle
    /\ CallIdle
    /\ args \in LoopArgs
    /\ root_manifest \in [depends : SeqsUpTo(LoopPackages, MaxRootDeps) \ {<<>>},
                          allow_build_commands : {"None"}]
    /\ pc = "main"
    /\ exc = NoExc
    /\ raised_at = ""
    /\ logged = ""
    /\ exit_code = -1
    /\ load_q = <<>>
    /\ loaded = <<>>
    /\ allow_build_commands = "False"
    /\ loader_script_snippets = [list \in {"env", "use", "script"} |-> <<>>]
    /\ nupm_home_symlink_todo = <<>>
    /\ symlink_i = 1
    /\ home_state = "absent"
    /\ home_links = {}
    /\ script_file = NoFile
    /\ overlay_file = NoFile
    /\ store_fs = IF args.fetched THEN FetchedStore ELSE {}
    /\ spawned = <<>>

\* ------------------------------------------------------------------------
\* Specifications
\* ------------------------------------------------------------------------

\* sort_loader_script_snippets on every list of the bounds.
SortInit ==
    /\ snippets \in SortInputs
    /\ todo = <<>>
    /\ result = <<>>
    /\ last_len = 0
    /\ it = 1
    /\ sort_pc = "start"
    /\ sort_err = <<>>
    /\ BuildIdle
    /\ CallIdle

SpecSort == SortInit /\ [][SortNext]_vars

\* `numng build` on every command line and root manifest of the bounds.
SpecBuild == BuildInit /\ [][BuildNext]_vars

\* SemVer.__eq__ on every version asked for and every candidate of the bounds.
SpecSemVer == SemVerInit /\ [][SemVerEq]_vars

\* Package.include_data on every receiver and every other of the model.
SpecInclude == IncludeInit /\ [][IncludeData]_vars

\* load_nupm_package_from_registry_nuon on every package file, name and
\* version of the bounds.
SpecNuon == NuonInit /\ [][LoadNuon]_vars

\* NumngPackageRegistry.get_by_name on every version file and version of the
\* model; a call that can take a step takes one.
SpecGetByName == GetByNameInit /\ [][GetByNameNext]_vars /\ WF_vars(GetByNameNext)

\* The match test of latest_matching_dict_entry and SemVer.__gt__ on every
\* pair of version strings of the model.
SpecCompare == CompareInit /\ [][CompareNext]_vars

\* latest_matching_dict_entry on every version asked for and every dict of
\* the bounds.
SpecLatest == LatestInit /\ [][LatestEntry]_vars

\* get_git_ref_path on every url, ref, store and subprocess result of the
\* model.
SpecGit == GitInit /\ [][GitCall]_vars

\* `numng build` on root manifests that name one package of a declared or
\* undeclared format, or the package that links another in.
SpecFormats == FormatsInit /\ [][BuildNext]_vars

\* `numng build` on root manifests whose packages name each other or
\* themselves; the process takes its next step as long as it has one, since
\* every subprocess returns.
SpecLoop == LoopInit /\ [][BuildNext]_vars /\ WF_vars(BuildNext)

\* ------------------------------------------------------------------------
\* Claims about sort_loader_script_snippets (checked under SpecSort)
\* ------------------------------------------------------------------------

\* Where the snippet with text t stands in the returned list.
PosInResult(t) == CHOOSE k \in DOMAIN result : result[k] = t

Emitted(i) == \E k \in DOMAIN result : result[k] = snippets[i].snippet

\* The dependency relation between owners after pruning: n -> d when a
\* snippet of n names d and d owns a snippet of the list.
PrunedEdges ==
    LET p == PruneDepends(snippets) IN
    UNION {{<<p[i].name, d>> : d \in Range(p[i].depends)} : i \in DOMAIN p}

EdgeSucc(E, S) == {e[2] : e \in {x \in E : x[1] \in S}}

RECURSIVE ReachWithin(_, _, _)
ReachWithin(E, S, k) ==
    IF k = 0 THEN {} ELSE EdgeSucc(E, S) \cup ReachWithin(E, EdgeSucc(E, S), k - 1)

HasCycle == \E n \in Names : n \in ReachWithin(PrunedEdges, {n}, Cardinality(Names))

\* C1: when the sort returns, every snippet of the input is in the result,
\* and for every snippet S and every package N named in S.depends, every
\* snippet owned by N stands before S.
C1_DependencyOrder ==
    sort_pc = "done" =>
        /\ \A i \in DOMAIN snippets : Emitted(i)
        /\ \A i, j \in DOMAIN snippets :
              snippets[j].name \in Range(snippets[i].depends)
                  => PosInResult(snippets[j].snippet) < PosInResult(snippets[i].snippet)

\* C1's case: the sort returned a list in which a snippet had to move behind
\* a snippet of a package it depends on.
C1_Witness ==
    /\ sort_pc = "done"
    /\ \E i, j \in DOMAIN snippets :
          /\ i < j
          /\ snippets[j].name \in Range(snippets[i].depends)
          /\ \E k \in DOMAIN snippets : k # j /\ snippets[k].name = snippets[j].name

\* C2: the sort is stable: when it returns, two snippets that were ready
\* from the start (their pruned depends are empty) stand in input order, and
\* a list without any dependency is returned as it was given.
C2_Stable ==
    sort_pc = "done" =>
        /\ \A i, j \in DOMAIN snippets :
              ( /\ i < j
                /\ PruneDepends(snippets)[i].depends = <<>>
                /\ PruneDepends(snippets)[j].depends = <<>> )
                  => PosInResult(snippets[i].snippet) < PosInResult(snippets[j].snippet)
        /\ (\A i \in DOMAIN snippets : snippets[i].depends = <<>>)
              => result = [i \in DOMAIN snippets |-> snippets[i].snippet]

\* C3, the states: a list whose pruned dependencies hold a cycle is never
\* returned, and the error lists exactly the owners of the snippets that
\* were not emitted.
C3_CycleStates ==
    /\ sort_pc = "done" => ~HasCycle
    /\ sort_pc = "error" =>
          Range(sort_err) = {snippets[i].name : i \in {j \in DOMAIN snippets : ~Emitted(j)}}

\* C3, the steps: a pass of the for loop that does not fail has emitted a
\* snippet, so the function cannot loop forever.
C3_PassShrinks ==
    (sort_pc = "for" /\ sort_pc' = "while") => Len(todo') < last_len

\* C3: on a cycle the sort neither returns nor loops forever; it fails, and
\* the failure names the owner of every snippet not emitted and no other.
C3_CycleFails == [](C3_CycleStates) /\ [][C3_PassShrinks]_vars

\* C3's case: the sort failed on a cycle after it had emitted a snippet.
C3_Witness ==
    /\ sort_pc = "error"
    /\ HasCycle
    /\ result # <<>>

\* ------------------------------------------------------------------------
\* Claims about `numng build` (checked under SpecBuild)
\* ------------------------------------------------------------------------

\* The home directory is not as the build found it.
HomeTouched ==
    \/ home_state # (IF args.home_exists THEN "previous" ELSE "absent")
    \/ \E l \in home_links :
          args.nupm_home.given /\ InsideDir(l[2], AbsPath(args.nupm_home.path))

\* Every script file asked for on the command line has been written.
ScriptsWritten ==
    /\ args.script_file => script_file.written
    /\ args.overlay_file => overlay_file.written

\* C4: the home directory is removed, made or given a symlink only after
\* every requested script has been written, and a build that aborts while it
\* resolves packages or emits a script (the circular-dependencies failure of
\* the sort among them) leaves the home directory as it found it.
C4_HomeAfterScripts ==
    /\ HomeTouched => ScriptsWritten
    /\ (exc # NoExc /\ raised_at \in {"init", "root", "loop", "script", "overlay"})
          => ~HomeTouched

\* A build with a home directory from before has ended with the
\* circular-dependencies failure of the sort.
C4_Witness ==
    /\ pc = "exit"
    /\ exc = AssertionError("circular dependencies")
    /\ args.home_exists
    /\ home_state = "previous"

\* C5: when the build has ended, with success or with a failure at any step,
\* the home directory is as the build found it or it holds the directories
\* and every planned symlink.
C5_HomeAtomic ==
    pc = "exit" =>
        \/ ~HomeTouched
        \/ /\ home_state = "dirs"
           /\ home_links = Range(nupm_home_symlink_todo)

\* C6: a home path whose absolute, normalized form has fewer than three
\* segments below the root is rejected by the guardrail, before any other
\* step of the build.
C6_Guardrail ==
    (args.nupm_home.given /\ Len(AbsPath(args.nupm_home.path).segs) < 3)
        => (pc \in {"main", "init"} \/ raised_at = "init")

\* The value of allow_build_commands in force: that of the command line
\* where given, else that of the root manifest, else false.
EffectiveAllow ==
    IF args.allow_build_commands # "None" THEN args.allow_build_commands = "'true'"
    ELSE root_manifest.allow_build_commands = "True"

\* C7: a build_command subprocess is run only in a build whose effective
\* allow_build_commands is true.
C7_BuildPolicy ==
    (\E i \in DOMAIN spawned : spawned[i].cmd = "nu build_command") => EffectiveAllow

\* C8: a build ended by an exception has logged the reason and exits with a
\* non-zero code.
C8_ExitStatus ==
    (pc = "exit" /\ exc # NoExc) => (exit_code # 0 /\ logged # "")

\* C9: no directory is interpreted twice in one build: the base paths handed
\* to _load_package name pairwise different directories.
C9_OncePerLocation ==
    \A i, j \in DOMAIN loaded : i < j => AbsPath(loaded[i]) # AbsPath(loaded[j])

\* C10: the base path of every fetched package in the queue lies inside the
\* worktree of the package's URL and ref.
C10_InsideWorktree ==
    \A k \in DOMAIN load_q :
        load_q[k][1].source_uri # NoUrl
            => InsideDir(AbsPath(load_q[k][2]),
                         GitRefDir(load_q[k][1].source_uri,
                                   RefOrMain(load_q[k][1].source_git_ref)))

\* The module paths the manifest of the interpreted directory b registers.
NuLibPaths(b) ==
    {AbsPath(PathJoin(b, lib.rel_path)) :
        lib \in Range(numng_json(AbsPath(b), root_manifest, store_fs).nu_libs)}

\* C11: a path that a manifest registers passes the containment check of its
\* package only where it is the package's directory or lies below it: every
\* planned module source of an interpreted directory lies inside that
\* directory, and a sibling whose name begins with the directory's name does
\* not.
C11_DirectoryContainment ==
    \A b \in Range(loaded) :
        \A src \in NuLibPaths(b) :
            (\E k \in DOMAIN nupm_home_symlink_todo : nupm_home_symlink_todo[k][1] = src)
                => InsideDir(src, AbsPath(b))

\* The directories of the home that hold its symlinks.
HomeLinkDirs ==
    {AbsPath(PathJoin(args.nupm_home.path, Rel(<<d>>))) : d \in {"modules", "bin", "overlays"}}

\* C12: every symlink the build makes has its destination inside modules,
\* bin or overlays of the home directory, and a build without a home
\* directory makes none.
C12_LinksInsideHome ==
    \A l \in home_links :
        /\ args.nupm_home.given
        /\ \E d \in HomeLinkDirs : InsideDir(l[2], d)

\* The number of subprocesses of the build that ran the command c.
CountCmd(c) == Cardinality({i \in DOMAIN spawned : spawned[i].cmd = c})

\* The git commands that use the network.
GitNetworkCmds == {"git clone", "git fetch", "git fetch --unshallow", "git fetch ref:ref"}

\* C13: a build that finds the worktree of the repository in the store, left
\* by an earlier build, and does not pull updates runs no git clone and no
\* git fetch, whatever packages it names.
C13_FetchIdempotent ==
    (args.fetched /\ ~args.pull_updates) => \A c \in GitNetworkCmds : CountCmd(c) = 0

\* Such a build has resolved its packages, two directories of the worktree
\* among them, without an error.
C13_Witness ==
    /\ args.fetched
    /\ ~args.pull_updates
    /\ load_q = <<>>
    /\ exc = NoExc
    /\ Len(loaded) > 2

\* C14: in one build git clone runs at most once and git fetch runs at most
\* once for the URL and ref of the repository, with or without pulled
\* updates and however many packages name it.
C14_NetworkOnce ==
    /\ CountCmd("git clone") <= 1
    /\ CountCmd("git fetch") <= 1

\* The subprocess that may follow a failed c: the repair of a fetch of a
\* short hash, and the fetch of the branch after a failed worktree add.
RetryOf(c) ==
    IF c = "git fetch" THEN {"git fetch --unshallow"}
    ELSE IF c = "git worktree add" THEN {"git fetch ref:ref"}
    ELSE {}

\* C16: after a subprocess that exits non-zero the build runs no further
\* subprocess, but for the retry that belongs to the failed command.
C16_FailFast ==
    \A i \in DOMAIN spawned :
        (spawned[i].rc # 0 /\ i < Len(spawned))
            => spawned[i + 1].cmd \in RetryOf(spawned[i].cmd)

\* The directory a reference to a package of the store resolves to.
BaseOf(package) ==
    AbsPath(PathJoin(PathJoin(GitBasePath(package.source_uri),
                              RefOrMain(package.source_git_ref)),
                     package.source_path_offset))

\* The directories of the direct dependencies declared for the package in
\* the directory b: those of the depends of its own numng.json and those of
\* the depends of a root manifest's entry that resolves to b.
DeclaredDeps(b) ==
    {BaseOf(l) : l \in Range(numng_json(b, root_manifest, store_fs).depends)}
        \cup UNION {{BaseOf(l) : l \in Range(p.depends)} :
                      p \in {q \in Range(root_manifest.depends) : BaseOf(q) = b}}

\* The directory that holds the file of an emitted snippet.
SnippetDir(snippet) == Path(TRUE, SubSeq(snippet.file.segs, 1, Len(snippet.file.segs) - 1))

\* C15: in the script file every snippet of a package L stands before every
\* snippet of a package P that declares L as a direct dependency, in the
\* entry that references P or in P's own numng.json.
C15_DeclaredOrder ==
    \A b \in {AbsPath(d) : d \in Range(loaded)} :
        \A l \in DeclaredDeps(b) \ {b} :
            \A i, j \in DOMAIN script_file.body :
                (SnippetDir(script_file.body[i]) = l /\ SnippetDir(script_file.body[j]) = b)
                    => i < j

\* ------------------------------------------------------------------------
\* Claims about SemVer (checked under SpecSemVer)
\* ------------------------------------------------------------------------

\* The number at position k of the version string asked for, "^M.m.p" or
\* "~M.m.p", and of the candidate "M.m.p".
WantedNumber(k) == IntOf(<<call_args.wanted[2 * k]>>)

CandidateNumber(k) == IntOf(<<call_args.candidate[2 * k - 1]>>)

\* The version asked for names a patch.
WantedPatchSet == Len(call_args.wanted) = 6

\* C20: against a candidate M.x.y, ^M.m[.p] matches no other major, every
\* minor x > m, and of minor m the candidates with y >= p (all where p is
\* unset); ~M.m.p matches no other major and no other minor, and of minor m
\* the candidates with y >= p.
C20_CaretTilde ==
    call_pc = "return" =>
        /\ CandidateNumber(1) # WantedNumber(1) => ~call_ret
        /\ (call_args.wanted[1] = "^" /\ CandidateNumber(1) = WantedNumber(1)) =>
              /\ CandidateNumber(2) > WantedNumber(2) => call_ret
              /\ CandidateNumber(2) = WantedNumber(2) =>
                    (call_ret <=> (~WantedPatchSet \/ CandidateNumber(3) >= WantedNumber(3)))
        /\ (call_args.wanted[1] = "~" /\ WantedPatchSet) =>
              (call_ret <=> /\ CandidateNumber(1) = WantedNumber(1)
                            /\ CandidateNumber(2) = WantedNumber(2)
                            /\ CandidateNumber(3) >= WantedNumber(3))

\* A caret has matched a candidate of a greater minor and a smaller patch.
C20_Witness ==
    /\ call_pc = "return"
    /\ call_ret = TRUE
    /\ call_args.wanted[1] = "^"
    /\ WantedPatchSet
    /\ CandidateNumber(2) > WantedNumber(2)
    /\ CandidateNumber(3) < WantedNumber(3)

\* ------------------------------------------------------------------------
\* Claims about Package.include_data (checked under SpecInclude)
\* ------------------------------------------------------------------------

\* C17: include_data overwrites nothing.  A field of the receiver that was
\* set (depends also where it was the empty list) keeps its value and one
\* that was None takes the value of other; every key of extra_data keeps its
\* value and extra_data gains the keys that only other had, with other's
\* values; name and registries are as they were.
C17_NeverOverwrites ==
    call_pc = "return" =>
        /\ call_ret.depends = IF call_args.self.depends # None THEN call_args.self.depends
                              ELSE call_args.other.depends
        /\ \A f \in ScalarFields :
              call_ret[f] = IF call_args.self[f] # "None" THEN call_args.self[f]
                            ELSE call_args.other[f]
        /\ Dict(call_args.self.extra_data) \subseteq Dict(call_ret.extra_data)
        /\ Dict(call_ret.extra_data) \ Dict(call_args.self.extra_data)
              = {p \in Dict(call_args.other.extra_data) :
                    p[1] \notin Keys(Dict(call_args.self.extra_data))}
        /\ (call_args.self.extra_data # None) => (call_ret.extra_data # None)
        /\ call_ret.name = call_args.self.name
        /\ call_ret.registries = call_args.self.registries

\* A receiver with the empty depends list, no source_uri and the key k1 has
\* included a package that has depends, a source_uri and the keys k1 and k2.
C17_Witness ==
    /\ call_pc = "return"
    /\ call_args.self.depends = Some(<<>>)
    /\ call_args.other.depends # None
    /\ call_args.self.source_uri = "None"
    /\ call_ret.source_uri = "o"
    /\ Keys(Dict(call_args.self.extra_data)) = {"k1"}
    /\ Keys(Dict(call_ret.extra_data)) = {"k1", "k2"}

\* ------------------------------------------------------------------------
\* Claims about the registries (checked under SpecNuon and SpecGetByName)
\* ------------------------------------------------------------------------

\* The records of the list that have the name and match the version asked
\* for.
MatchingRecords ==
    {r \in Range(call_args.json_data) :
        /\ call_args.name \in {"None", r.name}
        /\ SemVer__eq__(SemVer(call_args.version), SemVer(r.version))}

\* C18: load_nupm_package_from_registry_nuon returns None, and raises
\* nothing, where no record matches, and else the Package of a matching
\* record of the greatest version: its name, source_uri from info.url,
\* source_git_ref from info.revision, source_path_offset from path,
\* source_type from type and package_format "nupm".
C18_NuonLookup ==
    call_pc \in {"return", "raise"} =>
        /\ call_ret.exc = ""
        /\ IF MatchingRecords = {} THEN call_ret.value = None
           ELSE \E r \in MatchingRecords :
                   /\ \A q \in MatchingRecords : ~SemVer__gt__(SemVer(q.version), SemVer(r.version))
                                                    \/ q.version = r.version
                   /\ call_ret.value = Some(NupmPackage(r))

\* C19: the alias resolution of get_by_name ends: every call returns or
\* raises, also where the aliases of the version file form a cycle.
C19_AliasTerminates == <>(call_pc \in {"return", "raise"})

\* ------------------------------------------------------------------------
\* Claims about the comparisons of versions (checked under SpecCompare)
\* ------------------------------------------------------------------------

\* C21: the operator latest always matches: where the version asked for or
\* the candidate key has the operator latest, the match test is true,
\* whichever of the two is asked for and whichever is the key.
C21_LatestMatches ==
    /\ call_pc \in {"matched", "return"}
    /\ Latest \in {SemVer(call_args.a).op, SemVer(call_args.b).op}
    => call_ret.match

\* C30: a version with the operator latest is greater than every version
\* without it, and none of those is greater than it, whether or not the
\* other version has a number.
C30_LatestOnTop ==
    call_pc = "return" =>
        /\ SemVer(call_args.a).op = Latest /\ SemVer(call_args.b).op # Latest
              => call_ret.gt
        /\ SemVer(call_args.b).op = Latest /\ SemVer(call_args.a).op # Latest
              => ~call_ret.gt

\* ------------------------------------------------------------------------
\* Claims about latest_matching_dict_entry (checked under SpecLatest)
\* ------------------------------------------------------------------------

\* The ordering by major, minor and patch, with latest above every version.
Exceeds(x, y) ==
    IF x.op = Latest \/ y.op = Latest THEN x.op = Latest /\ y.op # Latest
    ELSE \/ x.major > y.major
         \/ x.major = y.major /\ x.minor > y.minor
         \/ x.major = y.major /\ x.minor = y.minor /\ x.patch > y.patch

\* The items of the dict searched whose key is not "_" and passes the match
\* test.
MatchingOptions ==
    {o \in Range(call_args.options) :
        o[1] # <<"_">> /\ MatchTest(SemVer(call_args.wanted), SemVer(o[1]))}

\* The same dict in every insertion order.
Reordered(options) ==
    {[i \in DOMAIN options |-> options[f[i]]] :
        f \in {g \in [DOMAIN options -> DOMAIN options] :
                  \A i, j \in DOMAIN options : i # j => g[i] # g[j]}}

\* C22: latest_matching_dict_entry never returns the value under "_",
\* returns None where no other key matches, and else the value of a
\* matching key that no matching key exceeds in the ordering by major, minor
\* and patch with latest on top; the same dict in another insertion order
\* gives the same value, except among keys that tie.
C22_GreatestMatch ==
    call_pc = "return" =>
        /\ call_ret.value # Some(<<"_">>)
        /\ IF MatchingOptions = {} THEN call_ret.value = None
           ELSE \E o \in MatchingOptions :
                   /\ call_ret.value = Some(o[2])
                   /\ \A q \in MatchingOptions : ~Exceeds(SemVer(q[1]), SemVer(o[1]))
        /\ \A p \in Reordered(call_args.options) :
              LET other == latest_matching_dict_entry(SemVer(call_args.wanted), p)
              IN  \/ other = call_ret.value
                  \/ /\ other # None /\ call_ret.value # None
                     /\ ~Exceeds(SemVer(other[1]), SemVer(call_ret.value[1]))
                     /\ ~Exceeds(SemVer(call_ret.value[1]), SemVer(other[1]))

\* ------------------------------------------------------------------------
\* Claims about get_git_ref_path (checked under SpecGit)
\* ------------------------------------------------------------------------

\* C25: the path get_git_ref_path returns is the directory in which the
\* worktree was created and whose existence was tested, the base path
\* joined with the sanitized ref, for every ref, a ref with "/" included.
C25_ReturnsWorktree ==
    call_pc = "return" =>
        /\ call_ret.path = GitRefDir(call_args.url, RefOrMain(call_args.ref))
        /\ call_ret.path \in call_ret.fs

\* ------------------------------------------------------------------------
\* Claims about the formats of packages (checked under SpecFormats)
\* ------------------------------------------------------------------------

\* The package the root manifest names is the package P of directory dir
\* with a format of formats, and its handler has run.
Handled(dir, formats) ==
    /\ \E format \in formats : root_manifest.depends = <<PkgP(dir, format)>>
    /\ Dir(dir) \in Range(loaded)

\* A snippet of the list with the command cmd on the file.
HasSnippet(list, cmd, file) ==
    \E i \in DOMAIN loader_script_snippets[list] :
        loader_script_snippets[list][i].snippet = [cmd |-> cmd, file |-> file]

\* What each interpreter leaves behind in the directory dir: numng the
\* snippet of s.nu, nupm the build of the custom package or the refusal to
\* build it, packer the snippet of the module m.
NumngRan(dir) == HasSnippet("script", "source", PathJoin(Dir(dir), Rel(<<"s.nu">>)))

BuildNuRuns == \E i \in DOMAIN spawned : spawned[i].cmd = "nu build.nu"

NupmRan == BuildNuRuns \/ exc = AssertionError("Cannot load nupm custom-type package")

PackerRan(dir) == HasSnippet("use", "export use *", PathJoin(Dir(dir), Rel(<<"m">>)))

\* C23: a package without a declared format is interpreted as numng where
\* its directory holds numng.json, else as nupm where it holds nupm.nuon,
\* else as packer where it holds meta.nuon: the package with meta.nuon
\* alone is interpreted by the packer interpreter and contributes its
\* snippets.
C23_AutoDetect ==
    /\ Handled("all", {"None"}) => NumngRan("all") /\ ~NupmRan /\ ~PackerRan("all")
    /\ Handled("pkn", {"None"}) => NupmRan /\ ~PackerRan("pkn")
    /\ Handled("pk", {"None"}) => PackerRan("pk")

\* The snippets of the three lists.
AllSnippets ==
    Range(loader_script_snippets["env"]) \cup Range(loader_script_snippets["use"])
        \cup Range(loader_script_snippets["script"])

\* The file of a snippet is an absolute, normalized path that starts with
\* the path of the directory dir.
CheckedFile(file, dir) == file.abs /\ file = NormPath(file) /\ StartsWith(file, Dir(dir))

\* C24: every file of shell_config (source, use, use_all and source_env)
\* is joined to the package's directory, normalized and checked before its
\* snippet is appended, the snippet carries the checked path, and an entry
\* that leads outside the directory aborts the build with the security
\* error: no entry gives an unchecked path or another failure.
C24_ShellConfigChecked ==
    \A dir \in {"all", "u", "u2"} :
        Handled(dir, {"None", "numng"}) =>
            /\ \A s \in AllSnippets : CheckedFile(s.snippet.file, dir)
            /\ exc.type \in {"", "AssertionError"}
            /\ dir = "u" =>
                  exc = AssertionError("Security error: shell_config outside of its directory")

\* C26: the packer interpreter normalizes the path of each entry of
\* prefixed_modules and modules after the join and before the check, so
\* that an entry that leads outside the package's directory aborts the
\* build and is in no snippet.
C26_PackerContained ==
    \A dir \in {"all", "pkn", "pk", "pk2"} :
        Handled(dir, {"packer", "packer.nu"}) =>
            /\ \A s \in Range(loader_script_snippets["use"]) :
                  InsideDir(NormPath(s.snippet.file), Dir(dir))
            /\ dir = "pk2" => exc = AssertionError("Security error: module paths invalid")

\* Build commands are enabled by the root manifest, or by the command line,
\* which overrides it.
BuildsEnabled ==
    IF args.allow_build_commands = "None" THEN root_manifest.allow_build_commands = "True"
    ELSE args.allow_build_commands = "'true'"

\* The handler of a nupm package of type custom has run.
CustomHandled == Handled("pkn", {"None", "nupm"}) \/ Handled("all", {"nupm"})

\* C27: a nupm package of type custom has its build.nu run where build
\* commands are enabled, by the root manifest or by `--allow-build-commands
\* true`, and aborts the build without running build.nu where they are
\* disabled.
C27_CustomBuild ==
    CustomHandled =>
        IF BuildsEnabled THEN BuildNuRuns
        ELSE ~BuildNuRuns /\ exc = AssertionError("Cannot load nupm custom-type package")

\* C29: the dependencies of nupm.nuon are read in both forms, the list of
\* "name" and "name/version" strings and the record of names and versions:
\* an entry "nushell" is passed over, and a dependency that no registry
\* knows aborts the build.
C29_NupmDependencies ==
    /\ \A dir \in {"nl", "nd"} : Handled(dir, {"None", "nupm"}) => raised_at # "loop"
    /\ Handled("nq", {"None", "nupm"}) =>
          exc = AssertionError("Failed to load (unknown dependency)")

\* ------------------------------------------------------------------------
\* Claims about linkin (checked under SpecFormats)
\* ------------------------------------------------------------------------

\* The link to A is planned.
LinkPlanned ==
    \E i \in DOMAIN nupm_home_symlink_todo : nupm_home_symlink_todo[i] = <<Worktree, LinkDst>>

\* The links at LinkDst.
LinksAtDst == {l \in home_links : l[2] = LinkDst}

\* C28: linkin goes by what is at the path of the link: where nothing is
\* there the link is planned; something that is no link aborts the build; a
\* link that leads to the directory of the package linked in is left as it
\* is and nothing is planned; every other link, one that leads nowhere
\* included, is removed and the link is planned, so that a build that
\* completes leaves the link to the directory of the package.
C28_LinkinByState ==
    root_manifest.depends = <<PkgY>> /\ Dir("y") \in Range(loaded) =>
        /\ args.link = "absent" => LinkPlanned
        /\ args.link = "dir" =>
              /\ ~LinkPlanned
              /\ exc = AssertionError("Failed linkin: path exists and is not a symlink")
        /\ args.link = "same" => ~LinkPlanned /\ LinksAtDst = FoundLinks("same")
        /\ args.link \in {"other", "dangling"} =>
              /\ LinkPlanned
              /\ LinksAtDst \cap FoundLinks(args.link) = {}
              /\ pc = "exit" /\ exc = NoExc => LinksAtDst = {<<Worktree, LinkDst>>}

\* ------------------------------------------------------------------------
\* More claims about sort_loader_script_snippets (checked under SpecSort)
\* ------------------------------------------------------------------------

\* C31: the sort fails on cycles only: where the dependency relation
\* between the owners of the snippets has no cycle after pruning, the sort
\* does not fail, also where a depends list names a package twice.
C31_FailsOnCyclesOnly == sort_pc = "error" => HasCycle


\* ------------------------------------------------------------------------
\* Claims about the symlink plan (checked under SpecFormats)
\* ------------------------------------------------------------------------

\* Two entries of the plan have the same destination.
SharedDst ==
    \E i, j \in DOMAIN nupm_home_symlink_todo :
        i # j /\ nupm_home_symlink_todo[i][2] = nupm_home_symlink_todo[j][2]

\* An entry of the plan has modules, bin or overlays of the home as its
\* destination.
DstIsLinkDir ==
    /\ args.nupm_home.given
    /\ \E i \in DOMAIN nupm_home_symlink_todo : nupm_home_symlink_todo[i][2] \in HomeLinkDirs

\* C32: no two entries of the symlink plan have the same destination and no
\* entry has modules, bin or overlays of the home itself as its destination,
\* so that no link into the freshly made home fails on a path that exists;
\* also for names that differ in sanitized characters only and for the
\* names "." and "".
C32_PlanDistinct ==
    /\ ~SharedDst
    /\ ~DstIsLinkDir
    /\ (raised_at = "links" /\ exc.type = "FileExistsError" /\ args.nupm_home.given)
           => ~InsideDir(nupm_home_symlink_todo[symlink_i][2], AbsPath(args.nupm_home.path))


\* ------------------------------------------------------------------------
\* Claims about the load loop (checked under SpecLoop)
\* ------------------------------------------------------------------------

\* No directory is interpreted twice.
LoadedOnce == \A i, j \in DOMAIN loaded : loaded[i] = loaded[j] => i = j

\* C33: the load loop ends for manifests that name each other and for a
\* manifest that names itself: the build comes to its end, the queue is
\* empty once the loop is left without an exception, and no directory is
\* interpreted more than once.
C33_LoopTerminates ==
    /\ <>(pc = "exit")
    /\ [](LoadedOnce /\ (pc \in {"script", "overlay", "home", "dirs", "links"} => load_q = <<>>))

\* A build of ca and cb, which name each other, has come to its end with
\* both interpreted.
C33_Witness ==
    /\ pc = "exit"
    /\ exc = NoExc
    /\ root_manifest.depends = <<PkgCa>>
    /\ {Dir("ca"), Dir("cb")} \subseteq Range(loaded)
    /\ load_q = <<>>


\* ------------------------------------------------------------------------
\* More claims about get_git_ref_path (checked under SpecGit)
\* ------------------------------------------------------------------------

\* The urls and refs of calls that get past line 646, a call without a ref
\* being one for "main".
GitSources == {u \in GitUrls : u.scheme # ""} \X (GitRefs \ {NoPath})

\* The url and the ref of the call.
CallSource == <<call_args.url, RefOrMain(call_args.ref)>>

\* C34: no two different pairs of url and ref have the same worktree
\* directory, and no ref has the directory of the bare clone as its
\* worktree directory, so that a call does not find as its worktree a
\* directory that a call for another url or ref has left; also for urls
\* that differ in their scheme or in sanitized characters only and for the
\* ref "__bare__".
C34_StoreUnique ==
    call_pc = "return" =>
        /\ \A c \in GitSources :
              c # CallSource => GitRefDir(c[1], c[2]) # GitRefDir(CallSource[1], CallSource[2])
        /\ GitRefDir(CallSource[1], CallSource[2]) # GitBarePath(CallSource[1])
        /\ (\A c \in GitSources : call_args.fs = StoreAfter(c[1], c[2]) => c # CallSource)
              => ~Exists(call_args.fs, GitRefDir(CallSource[1], CallSource[2]))

=============================================================================
